---- MODULE Spec2Model ----
(***************************************************************************)
(* Verification model of agent-rdp's connected-session core:               *)
(*   - the session actor (run_frame_processor) with its command channel,   *)
(*     the CLIPRDR clipboard backend and the IPC handlers that call it;     *)
(*   - the DVC automation request/response fabric;                          *)
(*   - the RDPDR drive-redirection backend over a small local filesystem;   *)
(*   - the daemon's run loop, its client connections and its request       *)
(*     handlers (connect, input, clipboard, ...).                           *)
(* Each subsystem has its own specification (Spec, SpecDvc, SpecRdpdr,      *)
(* SpecDaemon); SpecFair is Spec under the scheduling of the runtime.       *)
(***************************************************************************)
EXTENDS Integers, Sequences, FiniteSets, TLC

(***************************************************************************)
(* Bounds of the model                                                     *)
(***************************************************************************)
\* handler calls issued over the life of the session
MaxCalls == 3
\* clipboard events originating on the server (remote copies and pastes)
MaxSrvEvents == 2
\* send_request calls issued over the life of the DVC fabric
MaxDvcCalls == 3
\* unsolicited messages written by the agent
MaxAgentMsgs == 2
\* create requests served by the drive backend
MaxCreates == 2
\* drive I/O requests the server sends in one run
MaxDriveRequests == 4
\* requests the IPC clients issue in one run
MaxRequests == 3

(***************************************************************************)
(* Program constants                                                       *)
(***************************************************************************)
\* mpsc::channel(32) for SessionCommand
CommandCapacity == 32
\* tokio::sync::mpsc::channel(1) of the disconnect port
DisconnectCapacity == 1
\* CF_UNICODETEXT
CfUnicodeText == 13

\* CONSECUTIVE_FAILURE_THRESHOLD
ConsecutiveFailureThreshold == 3

\* formats a remote application may ask for: CF_UNICODETEXT and CF_TEXT
ServerFormats == {CfUnicodeText, 1}

\* concurrently running IPC handler tasks
Callers == {1, 2}

\* clipboard texts as sequences of UTF-16 code units: "a" + Greek alpha set locally,
\* "b" copied by a remote application
LocalTexts == {<<97, 945>>}
RemoteTexts == {<<98>>}

VARIABLES
    \* ---- session actor (rdp_session.rs) ----
    actor,                \* "running" | "stopped": position of run_frame_processor
    graceful_shutdown,    \* local flag of run_frame_processor
    exit_cause,           \* which arm ended the actor
    disconnect_notified,  \* whether disconnect_notify.send(()) was executed
    command_rx,           \* mpsc queue of SessionCommand
    clipboard_backend_rx, \* unbounded queue of BackendMessage
    stream_in,            \* PDUs sent by the server, not yet read
    inputs_sent,          \* number of SendInput batches submitted so far
    last_handed,          \* last batch given to process_fastpath_input
    last_written,         \* last batch whose response frame was written
    \* ---- ClipboardState (rdp_session/clipboard.rs) ----
    local_text, remote_text, remote_formats, pending_get,
    \* ---- RdpSession handle and the handlers that use it ----
    handle,               \* "held" | "dropped": the Option<RdpSession> slot / the command sender
    session_lock,         \* holder of the tokio Mutex around the slot, 0 = free
    pc,                   \* per handler task: "idle" | "await_set" | "await_get"
    oneshot,              \* per handler task: content of its response one-shot
    calls_made,           \* number of handler calls issued so far
    fault,                \* the failure the actor's last arm met and logged, or "none"
    shutdown_pc,          \* Daemon::run: "running" | "locking" (in shutdown) | "done"
    \* ---- remote RDP server (environment) ----
    srv_clip, srv_relay, srv_epoch, srv_events, srv_terminated,
    \* ---- history variables used by the properties ----
    client_epoch,         \* number of remote announcements the backend has processed
    remote_text_ep,       \* server epoch of the data held in remote_text
    last_set,             \* <<t>> when the last clipboard event was a local set(t)
    get_ctx               \* per caller: last_set as seen when its get was processed

exitVars == <<actor, graceful_shutdown, exit_cause, disconnect_notified>>
clipVars == <<local_text, remote_text, remote_formats, pending_get>>
callVars == <<handle, session_lock, pc, calls_made>>
srvVars == <<srv_clip, srv_relay, srv_epoch, srv_events, srv_terminated>>
inputVars == <<inputs_sent, last_handed, last_written>>
histVars == <<client_epoch, remote_text_ep, last_set, get_ctx>>

sessVars == <<exitVars, clipVars, callVars, srvVars, inputVars, histVars,
              command_rx, clipboard_backend_rx, stream_in, oneshot, shutdown_pc,
              fault>>


VARIABLES
    \* ---- DvcSharedState (automation/dvc_channel.rs) ----
    channel_id,           \* Option<u32>, 0 = None
    handshake,            \* whether a handshake is stored
    command_tx,           \* "none" | "open" | "closed": the Option<DvcCommandSender> and its receiver
    pending,              \* request id -> waiting caller, 0 = no entry
    \* ---- DvcIpc and the automate handler ----
    consecutive_failures,
    automation_lock,      \* holder of the automation-state mutex, 0 = free
    dvc_pc,               \* per handler task: "idle" | "waiting"
    request_id,           \* per handler task: id of the request it is sending
    response_rx,          \* per handler task: content of its response one-shot
    dvc_result,           \* outcome of the send_request that returned last
    dvc_calls,            \* number of send_request calls issued so far
    returned_id,          \* id of the call that returned in the last step, 0 = none did
    \* ---- the channel and the PowerShell agent (environment) ----
    dvc_out,              \* DvcSendCommands handed to the session, not yet seen by the agent
    dvc_in,               \* messages written by the agent, not yet processed
    agent_msgs,           \* number of unsolicited agent messages so far
    helper_alive,         \* FALSE once the helper process has been killed
    sent_after_kill,      \* per handler task: its request was issued after the kill
    after_kill,           \* results of the requests issued after the kill, in order
    \* ---- AutomationState (automation/mod.rs) and the history of send_request ----
    agent_ready,          \* AutomationState.agent_ready
    ended                 \* how each send_request call ended, in order of return

dvcState == <<channel_id, handshake, command_tx, pending>>
dvcCall == <<consecutive_failures, automation_lock, dvc_pc, request_id, response_rx,
             dvc_result, dvc_calls>>
killVars == <<helper_alive, sent_after_kill, after_kill>>
autoVars == <<agent_ready, ended>>
dvcVars == <<dvcState, dvcCall, returned_id, dvc_out, dvc_in, agent_msgs, killVars, autoVars>>

VARIABLES
    \* ---- MultiDriveBackend (rdpdr/mod.rs) ----
    file_id,              \* next file id to assign
    file_map,             \* file id -> "file" (Some(File)) | "dir" (None)
    file_path_map,        \* file id -> local path
    file_device_map,      \* file id -> device id
    delete_on_close,      \* file id -> TRUE for handles marked by a disposition request
    file_dir_map,         \* file id -> DirIterState [iter, base_path]
    \* ---- the local filesystem under the drives ----
    fs,                   \* path -> "none" | "file" | "dir"
    \* ---- what the last request did ----
    drive_reply,          \* operation and NtStatus of the last reply
    closed,               \* <<[id, path, should_delete, unmarked]>> right after the close of
                          \* a handle with a bound path, else <<>>
    unmarked,             \* file ids whose delete mark was withdrawn by a later disposition
    drive_requests,       \* number of drive I/O requests handled so far
    repeated,             \* the last request was the rename request handled just
                          \* before it (same device, same handle, same name) once more
    resolved,             \* <<[device, path, id]>>: the local path the last request resolved
                          \* the server's path to, and the device it addressed; else <<>>
    create_reply,         \* <<[file_id, information, disposition, existed]>> right after a
                          \* create: the reply's fields, the request's disposition and
                          \* whether the target existed before; else <<>>
    created_ids,          \* the file ids the create replies carried so far, in order
    queried               \* <<[initial, found, next]>> right after a query-directory request
                          \* on a registered handle and device: whether an entry was at
                          \* hand (the first of the listing, the named path, the cursor's
                          \* next entry) and its name; else <<>>

rdpdrVars == <<file_id, file_map, file_path_map, file_device_map, delete_on_close,
               file_dir_map, fs, drive_reply, closed, unmarked, drive_requests, repeated,
               resolved, create_reply, created_ids, queried>>

VARIABLES
    \* ---- the daemon and its IPC clients (daemon.rs, handlers/*.rs) ----
    rdp_session,          \* "none" | "live": the Arc<Mutex<Option<RdpSession>>>
    config_drives,        \* RdpConfig.drives of the live session
    drive_list,           \* (device id, name) pairs handed to Rdpdr::with_drives
    backend_root,         \* <<path>> the drive backend was constructed with, else <<>>
    connect_failure,      \* <<[by, cause, error]>> after RdpSession::connect failed: what
                          \* went wrong and the RdpError it returned; else <<>>
    client_pc,            \* per client: "idle" | "run" (a handler is working on its request)
    request,              \* per client: the request being handled, or handled last
    response,             \* per client: code of the response to that request, "none" before
    step,                 \* per client: lock scopes the handler has gone through
    no_session,           \* per client: the daemon held no session since the request was issued
    serial,               \* per client: number of its request
    requests_issued,      \* requests issued so far
    delivered,            \* batches handed to RdpSession::send_input, in order: [by, events]
    conn,                 \* per client: "open" | "closed" (handle_client has returned)
    lines_read,           \* per client: request lines handle_client has read
    lines_written,        \* per client: response lines handle_client has written
    daemon_run,           \* "running" | "exited": Daemon::run and the shutdown after it
    session_id,           \* number of the connect request that made the session in the
                          \* slot, 0 when the slot is empty
    actors,               \* sessions (by that number) whose actor is running
    disconnect_rx,        \* the disconnect port: the sessions whose notification is queued
    shutdown_by           \* <<[from, slot]>> once the daemon has shut down: the session whose
                          \* notification was received (0: a shutdown request) and session_id
                          \* at that moment

daemonVars == <<rdp_session, config_drives, drive_list, backend_root, connect_failure,
               client_pc, request,
               response, step, no_session, serial, requests_issued, delivered,
               conn, lines_read, lines_written,
               daemon_run, session_id, actors, disconnect_rx, shutdown_by>>

vars == <<sessVars, dvcVars, rdpdrVars, daemonVars>>

(***************************************************************************)
(* Values                                                                  *)
(***************************************************************************)
\* Option<T> is a sequence of length at most one
None == <<>>
Some(x) == <<x>>

\* content of a response one-shot; via tells which code path sent a text
NoReply == [st |-> "empty", text |-> <<>>, via |-> "none"]
ReplyOk == [st |-> "ok", text |-> <<>>, via |-> "none"]
ReplyText(t, via) == [st |-> "text", text |-> t, via |-> via]
ReplyNil == [st |-> "nil", text |-> <<>>, via |-> "none"]
ReplyErr == [st |-> "err", text |-> <<>>, via |-> "none"]
ReplyClosed == [st |-> "closed", text |-> <<>>, via |-> "none"]

\* SessionCommand
Cmd(type, id, text, tx) == [type |-> type, id |-> id, text |-> text, tx |-> tx]

\* inbound PDUs, as the clipboard channel sees them
Pdu(kind, fmt, err, data, ep) == [kind |-> kind, fmt |-> fmt, err |-> err, data |-> data, ep |-> ep]

\* frames written to the stream
Frame(kind, fmt, err, data) == [kind |-> kind, fmt |-> fmt, err |-> err, data |-> data]

\* OwnedFormatDataResponse
FormatDataError == [err |-> TRUE, data |-> <<>>]
FormatDataOk(bytes) == [err |-> FALSE, data |-> bytes]

(***************************************************************************)
(* UTF-16LE conversion of clipboard.rs                                     *)
(***************************************************************************)
RECURSIVE ToLeBytes(_)
ToLeBytes(units) ==
    IF units = <<>> THEN <<>>
    ELSE <<Head(units) % 256, Head(units) \div 256>> \o ToLeBytes(Tail(units))

\* text.encode_utf16().chain(once(0)) flat-mapped to little-endian bytes
EncodeUtf16Le(text) == ToLeBytes(text \o <<0>>)

RECURSIVE ChunksExact2(_)
ChunksExact2(data) ==
    IF Len(data) < 2 THEN <<>>
    ELSE <<data[1] + 256 * data[2]>> \o ChunksExact2(SubSeq(data, 3, Len(data)))

RECURSIVE TrimEndNul(_)
TrimEndNul(units) ==
    IF units # <<>> /\ units[Len(units)] = 0
    THEN TrimEndNul(SubSeq(units, 1, Len(units) - 1))
    ELSE units

DecodeUtf16Le(data) == TrimEndNul(ChunksExact2(data))

(***************************************************************************)
(* Initial state: connect() has succeeded and spawned the actor            *)
(***************************************************************************)
InitSession ==
    /\ actor = "running"
    /\ graceful_shutdown = FALSE
    /\ exit_cause = "none"
    /\ disconnect_notified = FALSE
    /\ command_rx = <<>>
    /\ clipboard_backend_rx = <<>>
    \* the server opens the clipboard channel with its capabilities / monitor-ready pair
    /\ stream_in = <<Pdu("monitor_ready", 0, FALSE, <<>>, 0)>>
    /\ inputs_sent = 0
    /\ last_handed = 0
    /\ last_written = 0
    /\ local_text = None
    /\ remote_text = None
    /\ remote_formats = <<>>
    /\ pending_get = 0
    /\ handle = "held"
    /\ session_lock = 0
    /\ pc = [c \in Callers |-> "idle"]
    /\ oneshot = [c \in Callers |-> NoReply]
    /\ calls_made = 0
    /\ shutdown_pc = "running"
    /\ fault = "none"
    /\ srv_clip = [owner |-> "none", text |-> <<>>]
    /\ srv_relay = FALSE
    /\ srv_epoch = 0
    /\ srv_events = 0
    /\ srv_terminated = FALSE
    /\ client_epoch = 0
    /\ remote_text_ep = 0
    /\ last_set = None
    /\ get_ctx = [c \in Callers |-> None]

(***************************************************************************)
(* One-shot helpers                                                        *)
(***************************************************************************)
\* tx.send(v) on the one-shot of caller c (c = 0: no sender)
Complete(os, c, v) == IF c # 0 THEN [os EXCEPT ![c] = v] ELSE os

\* dropping the sender of caller c without sending wakes the receiver with RecvError
DropSender(os, c) ==
    IF c # 0 /\ os[c].st = "empty" THEN [os EXCEPT ![c] = ReplyClosed] ELSE os

QueuedSenders(q) == {q[i].tx : i \in 1..Len(q)} \ {0}

\* dropping command_rx drops every queued command together with its response_tx
DropQueued(os, q) ==
    [c \in Callers |-> IF c \in QueuedSenders(q) /\ os[c].st = "empty"
                       THEN ReplyClosed ELSE os[c]]

(***************************************************************************)
(* The remote RDP server and its clipboard (environment).  The server      *)
(* reacts to a frame when the client writes it; its answers wait in        *)
(* stream_in until the actor reads them.                                   *)
(***************************************************************************)
\* the answers the server can give to a paste request of the client
SrvAnswers ==
    IF srv_clip.owner = "remote"
    THEN {FormatDataOk(EncodeUtf16Le(srv_clip.text)), FormatDataOk(<<>>), FormatDataError}
    ELSE {FormatDataError}

\* reaction of the server to frame f, answering a paste request with a
SrvReact(f, a) ==
    CASE f.kind = "format_list" ->
            [clip |-> IF f.fmt = 0 THEN srv_clip ELSE [owner |-> "client", text |-> <<>>],
             relay |-> srv_relay, pdus |-> <<>>]
      [] f.kind = "paste_req" ->
            IF srv_clip.owner = "client"
            THEN \* the data lives on the client: ask for it, answer when it arrives
                 [clip |-> srv_clip, relay |-> TRUE,
                  pdus |-> <<Pdu("format_data_request", CfUnicodeText, FALSE, <<>>, srv_epoch)>>]
            ELSE [clip |-> srv_clip, relay |-> srv_relay,
                  pdus |-> <<Pdu("format_data_response", 0, a.err, a.data, srv_epoch)>>]
      [] f.kind = "format_data" ->
            IF srv_relay
            THEN [clip |-> srv_clip, relay |-> FALSE,
                  pdus |-> IF srv_clip.owner = "client"
                           THEN <<Pdu("format_data_response", 0, f.err, f.data, srv_epoch)>>
                           ELSE <<Pdu("format_data_response", 0, TRUE, <<>>, srv_epoch)>>]
            ELSE [clip |-> srv_clip, relay |-> srv_relay, pdus |-> <<>>]
      [] OTHER -> [clip |-> srv_clip, relay |-> srv_relay, pdus |-> <<>>]

\* framed.write_all(frame): the frame reaches the server unless the write fails
WriteAll(f, ok) ==
    IF ok
    THEN \E a \in SrvAnswers :
            LET r == SrvReact(f, a) IN
            /\ srv_clip' = r.clip
            /\ srv_relay' = r.relay
            /\ stream_in' = stream_in \o r.pdus
    ELSE UNCHANGED <<srv_clip, srv_relay, stream_in>>

NoWrite == UNCHANGED <<srv_clip, srv_relay, stream_in>>

srvCnt == <<srv_epoch, srv_events, srv_terminated>>

(***************************************************************************)
(* IPC handlers (handlers/*.rs) calling the RdpSession handle              *)
(***************************************************************************)
\* a channel that hands out the newest command first
EnqueueFront(q, cmd) == <<cmd>> \o q

\* mpsc send: the command is queued behind everything sent before it
Enqueue(q, cmd) == Append(q, cmd)

\* a handler that reads the slot without waiting for the session mutex
CanCallNoLock(c) ==
    /\ pc[c] = "idle"
    /\ handle = "held"
    /\ calls_made < MaxCalls
    /\ Len(command_rx) < CommandCapacity

\* a handler takes the session mutex and finds Some(rdp) in the slot
CanCall(c) ==
    /\ pc[c] = "idle"
    /\ session_lock = 0
    /\ handle = "held"
    /\ calls_made < MaxCalls
    /\ Len(command_rx) < CommandCapacity

\* RdpSession::send_input under the handler's lock: returns once the batch is queued
CallSendInput(c) ==
    /\ UNCHANGED <<dvcVars, rdpdrVars, daemonVars, shutdown_pc, fault>>
    /\ CanCall(c)
    /\ calls_made' = calls_made + 1
    /\ IF actor = "running"
       THEN /\ inputs_sent' = inputs_sent + 1
            /\ command_rx' = Enqueue(command_rx, Cmd("SendInput", inputs_sent + 1, <<>>, 0))
       ELSE UNCHANGED <<inputs_sent, command_rx>>
    /\ UNCHANGED <<exitVars, clipVars, srvVars, histVars, last_handed, last_written,
                   clipboard_backend_rx, stream_in, handle, session_lock, pc, oneshot>>

\* handlers::clipboard::handle, SetText -> RdpSession::clipboard_set:
\* the lock is held until response_rx.await resolves
CallClipboardSet(c, t) ==
    /\ UNCHANGED <<dvcVars, rdpdrVars, daemonVars, shutdown_pc, fault>>
    /\ CanCall(c)
    /\ calls_made' = calls_made + 1
    /\ session_lock' = c
    /\ pc' = [pc EXCEPT ![c] = "await_set"]
    /\ IF actor = "running"
       THEN /\ command_rx' = Enqueue(command_rx, Cmd("ClipboardSet", 0, t, c))
            /\ UNCHANGED oneshot
       ELSE /\ oneshot' = [oneshot EXCEPT ![c] = ReplyClosed]
            /\ UNCHANGED command_rx
    /\ UNCHANGED <<exitVars, clipVars, srvVars, inputVars, histVars,
                   clipboard_backend_rx, stream_in, handle>>

\* handlers::clipboard::handle, GetText -> RdpSession::clipboard_get:
\* the lock is held until response_rx.await resolves
CallClipboardGet(c) ==
    /\ UNCHANGED <<dvcVars, rdpdrVars, daemonVars, shutdown_pc, fault>>
    /\ CanCall(c)
    /\ calls_made' = calls_made + 1
    /\ session_lock' = c
    /\ pc' = [pc EXCEPT ![c] = "await_get"]
    /\ IF actor = "running"
       THEN /\ command_rx' = Enqueue(command_rx, Cmd("ClipboardGet", 0, <<>>, c))
            /\ UNCHANGED oneshot
       ELSE /\ oneshot' = [oneshot EXCEPT ![c] = ReplyClosed]
            /\ UNCHANGED command_rx
    /\ UNCHANGED <<exitVars, clipVars, srvVars, inputVars, histVars,
                   clipboard_backend_rx, stream_in, handle>>

\* response_rx.await resolves; the handler answers its client and releases the lock
CallerReturn(c) ==
    /\ UNCHANGED <<dvcVars, rdpdrVars, daemonVars, shutdown_pc, fault>>
    /\ pc[c] \in {"await_set", "await_get"}
    /\ oneshot[c].st # "empty"
    /\ pc' = [pc EXCEPT ![c] = "idle"]
    /\ oneshot' = [oneshot EXCEPT ![c] = NoReply]
    /\ get_ctx' = [get_ctx EXCEPT ![c] = None]
    /\ session_lock' = 0
    /\ UNCHANGED <<exitVars, clipVars, srvVars, inputVars, command_rx,
                   clipboard_backend_rx, stream_in, handle, calls_made,
                   client_epoch, remote_text_ep, last_set>>

\* handle_disconnect / connect's auto-disconnect / Daemon::shutdown:
\* session.take() then RdpSession::disconnect, which sends Shutdown and drops the handle
CallDisconnect(c) ==
    /\ UNCHANGED <<dvcVars, rdpdrVars, daemonVars, shutdown_pc, fault>>
    /\ CanCall(c)
    /\ calls_made' = calls_made + 1
    /\ handle' = "dropped"
    /\ command_rx' = IF actor = "running"
                     THEN Enqueue(command_rx, Cmd("Shutdown", 0, <<>>, 0))
                     ELSE command_rx
    /\ UNCHANGED <<exitVars, clipVars, srvVars, inputVars, histVars,
                   clipboard_backend_rx, stream_in, session_lock, pc, oneshot>>

\* the owner drops the RdpSession value without calling disconnect():
\* command_tx is dropped and the channel closes once drained
DropHandle ==
    /\ UNCHANGED <<dvcVars, rdpdrVars, daemonVars, shutdown_pc, fault>>
    /\ handle = "held"
    /\ session_lock = 0
    /\ handle' = "dropped"
    /\ UNCHANGED <<exitVars, clipVars, srvVars, inputVars, histVars, command_rx,
                   clipboard_backend_rx, stream_in, session_lock, pc, oneshot, calls_made>>

\* Daemon::run, disconnect_rx.recv() arm: the loop breaks and shutdown() starts
DaemonRunDisconnect ==
    /\ UNCHANGED <<dvcVars, rdpdrVars, daemonVars, fault>>
    /\ shutdown_pc = "running"
    /\ disconnect_notified
    /\ shutdown_pc' = "locking"
    /\ UNCHANGED <<exitVars, clipVars, callVars, srvVars, inputVars, histVars,
                   command_rx, clipboard_backend_rx, stream_in, oneshot>>

\* Daemon::shutdown: rdp_session.lock().await, session.take(), disconnect(), then the
\* socket and PID files are removed
DaemonShutdown ==
    /\ UNCHANGED <<dvcVars, rdpdrVars, daemonVars, fault>>
    /\ shutdown_pc = "locking"
    /\ session_lock = 0
    /\ handle' = "dropped"
    /\ command_rx' = IF handle = "held" /\ actor = "running" /\ Len(command_rx) < CommandCapacity
                     THEN Enqueue(command_rx, Cmd("Shutdown", 0, <<>>, 0))
                     ELSE command_rx
    /\ shutdown_pc' = "done"
    /\ UNCHANGED <<exitVars, clipVars, srvVars, inputVars, histVars,
                   clipboard_backend_rx, stream_in, session_lock, pc, oneshot, calls_made>>

(***************************************************************************)
(* Leaving the actor                                                       *)
(***************************************************************************)
\* post-loop code without the notification
PostLoopNotifyNever(graceful) == FALSE

\* post-loop code of run_frame_processor: notify unless graceful
PostLoopNotify(graceful) == ~graceful

\* the task ends: command receiver, backend receiver and stream are dropped
ActorStops(notify, os, rest) ==
    /\ actor' = "stopped"
    /\ disconnect_notified' = notify
    /\ command_rx' = <<>>
    /\ oneshot' = DropQueued(os, rest)
    /\ clipboard_backend_rx' = <<>>
    /\ stream_in' = <<>>

\* a per-request failure that signalled the disconnect port
LoggedAndNotified(kind) ==
    /\ fault' = kind
    /\ disconnect_notified' = (disconnect_notified \/ kind # "none")
    /\ UNCHANGED <<actor, graceful_shutdown, exit_cause>>

\* what an arm of the loop does with a failure of its own: error!(...) at most, and
\* the loop goes on; kind = "none" when the arm met no failure
Logged(kind) ==
    /\ fault' = kind
    /\ UNCHANGED exitVars

(***************************************************************************)
(* Session actor, command path                                             *)
(***************************************************************************)
\* command_rx.recv() yields the oldest queued command
NextCommand(q) == Head(q)
RestCommands(q) == Tail(q)

Receives(type) ==
    /\ actor = "running"
    /\ command_rx # <<>>
    /\ NextCommand(command_rx).type = type

\* SendInput arm: process_fastpath_input, then write the response frames
ActorSendInput ==
    /\ UNCHANGED <<dvcVars, rdpdrVars, daemonVars, shutdown_pc>>
    /\ Receives("SendInput")
    /\ LET cmd == NextCommand(command_rx) IN
       \E written \in BOOLEAN :
          /\ command_rx' = RestCommands(command_rx)
          /\ last_handed' = cmd.id
          /\ last_written' = IF written THEN cmd.id ELSE last_written
          /\ Logged(IF written THEN "none" ELSE "input")
    /\ UNCHANGED <<clipVars, callVars, srvVars, histVars, inputs_sent,
                   clipboard_backend_rx, stream_in, oneshot>>

\* ClipboardSet arm: store local_text, initiate_copy with CF_UNICODETEXT, reply
ActorClipboardSet ==
    /\ UNCHANGED <<dvcVars, rdpdrVars, daemonVars, shutdown_pc>>
    /\ Receives("ClipboardSet")
    /\ LET cmd == NextCommand(command_rx) IN
       \E copy_ok \in BOOLEAN, wr \in BOOLEAN :
          /\ command_rx' = RestCommands(command_rx)
          /\ local_text' = Some(cmd.text)
          /\ Logged(IF copy_ok /\ wr THEN "none" ELSE "copy")
          \* the set counts as the last clipboard event once it is announced
          /\ last_set' = IF copy_ok /\ wr THEN Some(cmd.text) ELSE None
          /\ IF copy_ok
             THEN /\ WriteAll(Frame("format_list", CfUnicodeText, FALSE, <<>>), wr)
                  /\ oneshot' = Complete(oneshot, cmd.tx, ReplyOk)
             ELSE /\ NoWrite
                  /\ oneshot' = Complete(oneshot, cmd.tx, ReplyErr)
    /\ UNCHANGED <<remote_text, remote_formats, pending_get, callVars, srvCnt,
                   inputVars, clipboard_backend_rx, client_epoch, remote_text_ep, get_ctx>>

\* ClipboardGet arm, as a function of the command: answer from the cache, or install
\* the reply in pending_get and initiate a paste
\* how far the paste request of a get gets: initiate_paste fails, the messages cannot be
\* encoded, the write fails, or the request is on the wire
PasteOutcomes == {"paste_initiate", "paste_encode", "paste_write", "none"}

ClipboardGetArm(cmd) ==
    IF remote_text # None
    THEN /\ oneshot' = Complete(oneshot, cmd.tx, ReplyText(remote_text[1], "cache"))
         /\ UNCHANGED pending_get
         /\ NoWrite
         /\ Logged("none")
    ELSE \E outcome \in PasteOutcomes :
            /\ Logged(outcome)
            /\ IF outcome # "paste_initiate"
               THEN /\ pending_get' = cmd.tx
                    \* the previous sender, if any, is overwritten and thereby dropped
                    /\ oneshot' = DropSender(oneshot, pending_get)
                    /\ IF outcome = "paste_encode"
                       THEN NoWrite
                       ELSE WriteAll(Frame("paste_req", CfUnicodeText, FALSE, <<>>),
                                     outcome = "none")
               ELSE /\ pending_get' = 0
                    /\ oneshot' = Complete(DropSender(oneshot, pending_get), cmd.tx, ReplyErr)
                    /\ NoWrite

ActorClipboardGet ==
    /\ UNCHANGED <<dvcVars, rdpdrVars, daemonVars, shutdown_pc>>
    /\ Receives("ClipboardGet")
    /\ LET cmd == NextCommand(command_rx) IN
          /\ command_rx' = RestCommands(command_rx)
          /\ get_ctx' = [get_ctx EXCEPT ![cmd.tx] = last_set]
          /\ ClipboardGetArm(cmd)
    /\ UNCHANGED <<local_text, remote_text, remote_formats, callVars, srvCnt,
                   inputVars, clipboard_backend_rx, client_epoch, remote_text_ep, last_set>>

\* Shutdown arm: set the flag, write the graceful-shutdown frames, break
ActorShutdown ==
    /\ UNCHANGED <<dvcVars, rdpdrVars, daemonVars, shutdown_pc>>
    /\ fault' = "none"
    /\ Receives("Shutdown")
    /\ graceful_shutdown' = TRUE
    /\ exit_cause' = "shutdown"
    /\ ActorStops(PostLoopNotify(graceful_shutdown'), oneshot, RestCommands(command_rx))
    /\ UNCHANGED <<clipVars, callVars, srvVars, inputVars, histVars>>

\* recv() returned None: every sender is gone and the queue is drained; break
ActorChannelClosed ==
    /\ UNCHANGED <<dvcVars, rdpdrVars, daemonVars, shutdown_pc>>
    /\ fault' = "none"
    /\ actor = "running"
    /\ command_rx = <<>>
    /\ handle = "dropped"
    /\ exit_cause' = "channel_closed"
    /\ ActorStops(PostLoopNotify(graceful_shutdown), oneshot, <<>>)
    /\ UNCHANGED <<graceful_shutdown, clipVars, callVars, srvVars, inputVars, histVars>>

(***************************************************************************)
(* Clipboard backend callbacks (AgentClipboardBackend)                     *)
(***************************************************************************)
\* on_request_format_list: announce CF_UNICODETEXT if local_text is stored, else nothing
OnRequestFormatList ==
    [kind |-> "InitiateCopy",
     fmt |-> IF local_text # None THEN CfUnicodeText ELSE 0,
     resp |-> FormatDataError]

\* on_remote_copy that keeps the cached text
RemoteTextAfterCopyKeep(old) == old

\* on_remote_copy: the cached remote text after a new announcement
RemoteTextAfterCopy(old) == None

\* on_format_data_request: serve local_text as UTF-16LE with a trailing NUL
OnFormatDataRequest(fmt) ==
    IF fmt = CfUnicodeText
    THEN IF local_text # None
         THEN FormatDataOk(EncodeUtf16Le(local_text[1]))
         ELSE FormatDataError
    ELSE FormatDataError

\* on_format_data_response that completes the read without storing the text
OnFormatDataResponseNoStore(p) ==
    /\ oneshot' = Complete(oneshot, pending_get,
                     IF ~p.err /\ Len(p.data) >= 2
                     THEN ReplyText(DecodeUtf16Le(p.data), "response") ELSE ReplyNil)
    /\ pending_get' = 0
    /\ UNCHANGED <<remote_text, remote_text_ep>>

\* on_format_data_response, under one lock on ClipboardState
OnFormatDataResponse(p) ==
    IF p.err
    THEN /\ oneshot' = Complete(oneshot, pending_get, ReplyNil)
         /\ pending_get' = 0
         /\ UNCHANGED <<remote_text, remote_text_ep>>
    ELSE IF Len(p.data) >= 2
         THEN LET text == DecodeUtf16Le(p.data) IN
              /\ remote_text' = Some(text)
              /\ remote_text_ep' = p.ep
              /\ oneshot' = Complete(oneshot, pending_get, ReplyText(text, "response"))
              /\ pending_get' = 0
         ELSE /\ oneshot' = Complete(oneshot, pending_get, ReplyNil)
              /\ pending_get' = 0
              /\ UNCHANGED <<remote_text, remote_text_ep>>

(***************************************************************************)
(* Session actor, PDU path                                                 *)
(***************************************************************************)
ReadsPdu(kind) ==
    /\ actor = "running"
    /\ stream_in # <<>>
    /\ Head(stream_in).kind = kind

\* clipboard channel initialisation: the backend is asked for its format list
ActorPduMonitorReady ==
    /\ UNCHANGED <<dvcVars, rdpdrVars, daemonVars, shutdown_pc>>
    /\ Logged("none")
    /\ ReadsPdu("monitor_ready")
    /\ stream_in' = Tail(stream_in)
    /\ clipboard_backend_rx' = Append(clipboard_backend_rx, OnRequestFormatList)
    /\ UNCHANGED <<clipVars, callVars, srvVars, inputVars, histVars,
                   command_rx, oneshot>>

\* format list from the server -> on_remote_copy
ActorPduFormatList ==
    /\ UNCHANGED <<dvcVars, rdpdrVars, daemonVars, shutdown_pc>>
    /\ Logged("none")
    /\ ReadsPdu("format_list")
    /\ stream_in' = Tail(stream_in)
    /\ remote_formats' = <<Head(stream_in).fmt>>
    /\ remote_text' = RemoteTextAfterCopy(remote_text)
    /\ client_epoch' = client_epoch + 1
    /\ last_set' = None
    /\ get_ctx' = [c \in Callers |-> None]
    /\ UNCHANGED <<local_text, pending_get, callVars, srvVars, inputVars,
                   command_rx, clipboard_backend_rx, oneshot, remote_text_ep>>

\* format data request from the server -> on_format_data_request -> proxy message
ActorPduFormatDataRequest ==
    /\ UNCHANGED <<dvcVars, rdpdrVars, daemonVars, shutdown_pc>>
    /\ Logged("none")
    /\ ReadsPdu("format_data_request")
    /\ stream_in' = Tail(stream_in)
    /\ clipboard_backend_rx' = Append(clipboard_backend_rx,
            [kind |-> "FormatData", fmt |-> 0,
             resp |-> OnFormatDataRequest(Head(stream_in).fmt)])
    /\ UNCHANGED <<clipVars, callVars, srvVars, inputVars, histVars,
                   command_rx, oneshot>>

\* format data response from the server -> on_format_data_response
ActorPduFormatDataResponse ==
    /\ UNCHANGED <<dvcVars, rdpdrVars, daemonVars, shutdown_pc>>
    /\ Logged("none")
    /\ ReadsPdu("format_data_response")
    /\ stream_in' = Tail(stream_in)
    /\ OnFormatDataResponse(Head(stream_in))
    /\ UNCHANGED <<local_text, remote_formats, callVars, srvVars, inputVars,
                   command_rx, clipboard_backend_rx, client_epoch, last_set, get_ctx>>

\* process() returned Err: the error is logged, nothing is written, the loop goes on
ActorPduError ==
    /\ UNCHANGED <<dvcVars, rdpdrVars, daemonVars, shutdown_pc>>
    /\ ReadsPdu("malformed")
    /\ stream_in' = Tail(stream_in)
    /\ Logged("pdu")
    /\ UNCHANGED <<clipVars, callVars, srvVars, inputVars, histVars,
                   command_rx, clipboard_backend_rx, oneshot>>

\* process() returned ActiveStageOutput::Terminate: notify and return
ActorPduTerminate ==
    /\ UNCHANGED <<dvcVars, rdpdrVars, daemonVars, shutdown_pc>>
    /\ fault' = "none"
    /\ ReadsPdu("terminate")
    /\ exit_cause' = "terminate"
    /\ ActorStops(TRUE, oneshot, command_rx)
    /\ UNCHANGED <<graceful_shutdown, clipVars, callVars, srvVars, inputVars, histVars>>

\* framed.read_pdu() returned Err: break, then the post-loop code
ActorReadError ==
    /\ UNCHANGED <<dvcVars, rdpdrVars, daemonVars, shutdown_pc>>
    /\ fault' = "none"
    /\ actor = "running"
    /\ exit_cause' = "read_error"
    /\ ActorStops(PostLoopNotify(graceful_shutdown), oneshot, command_rx)
    /\ UNCHANGED <<graceful_shutdown, clipVars, callVars, srvVars, inputVars, histVars>>

(***************************************************************************)
(* Session actor, backend path                                             *)
(***************************************************************************)
\* the frame a backend message is serialised to
BackendFrame(msg) ==
    CASE msg.kind = "InitiateCopy" -> Frame("format_list", msg.fmt, FALSE, <<>>)
      [] msg.kind = "FormatData" -> Frame("format_data", 0, msg.resp.err, msg.resp.data)
      [] msg.kind = "InitiatePaste" -> Frame("paste_req", msg.fmt, FALSE, <<>>)

ActorBackend ==
    /\ UNCHANGED <<dvcVars, rdpdrVars, daemonVars, shutdown_pc>>
    /\ actor = "running"
    /\ clipboard_backend_rx # <<>>
    /\ clipboard_backend_rx' = Tail(clipboard_backend_rx)
    /\ \E wr \in BOOLEAN :
          /\ WriteAll(BackendFrame(Head(clipboard_backend_rx)), wr)
          /\ Logged(IF wr THEN "none" ELSE "backend")
    /\ UNCHANGED <<clipVars, callVars, srvCnt, inputVars, histVars,
                   command_rx, oneshot>>

(***************************************************************************)
(* Events originating on the server                                        *)
(***************************************************************************)
\* a remote application copies text t: the server announces its formats
SrvCopy(t) ==
    /\ UNCHANGED <<dvcVars, rdpdrVars, daemonVars, shutdown_pc, fault>>
    /\ actor = "running"
    /\ srv_events < MaxSrvEvents
    /\ srv_events' = srv_events + 1
    /\ srv_epoch' = srv_epoch + 1
    /\ srv_clip' = [owner |-> "remote", text |-> t]
    /\ stream_in' = Append(stream_in, Pdu("format_list", CfUnicodeText, FALSE, <<>>, srv_epoch + 1))
    /\ UNCHANGED <<exitVars, clipVars, callVars, inputVars, histVars, command_rx,
                   clipboard_backend_rx, oneshot, srv_relay, srv_terminated>>

\* a remote application pastes while the client owns the clipboard
SrvPaste(fmt) ==
    /\ UNCHANGED <<dvcVars, rdpdrVars, daemonVars, shutdown_pc, fault>>
    /\ actor = "running"
    /\ srv_clip.owner = "client"
    /\ srv_events < MaxSrvEvents
    /\ srv_events' = srv_events + 1
    /\ stream_in' = Append(stream_in, Pdu("format_data_request", fmt, FALSE, <<>>, srv_epoch))
    /\ UNCHANGED <<exitVars, clipVars, callVars, inputVars, histVars, command_rx,
                   clipboard_backend_rx, oneshot, srv_clip, srv_relay, srv_epoch,
                   srv_terminated>>

\* the server sends a PDU that the active stage cannot process
SrvMalformed ==
    /\ UNCHANGED <<dvcVars, rdpdrVars, daemonVars, shutdown_pc, fault>>
    /\ actor = "running"
    /\ srv_events < MaxSrvEvents
    /\ srv_events' = srv_events + 1
    /\ stream_in' = Append(stream_in, Pdu("malformed", 0, FALSE, <<>>, srv_epoch))
    /\ UNCHANGED <<exitVars, clipVars, callVars, inputVars, histVars, command_rx,
                   clipboard_backend_rx, oneshot, srv_clip, srv_relay, srv_epoch,
                   srv_terminated>>

\* the server ends the session (logoff, disconnect by another client, ...)
SrvTerminate ==
    /\ UNCHANGED <<dvcVars, rdpdrVars, daemonVars, shutdown_pc, fault>>
    /\ actor = "running"
    /\ ~srv_terminated
    /\ srv_terminated' = TRUE
    /\ stream_in' = Append(stream_in, Pdu("terminate", 0, FALSE, <<>>, srv_epoch))
    /\ UNCHANGED <<exitVars, clipVars, callVars, inputVars, histVars, command_rx,
                   clipboard_backend_rx, oneshot, srv_clip, srv_relay, srv_epoch, srv_events>>

(***************************************************************************)
(* DVC automation fabric (automation/dvc_ipc.rs, automation/dvc_channel.rs) *)
(***************************************************************************)
\* first eight characters of a fresh UUID: any value, collisions included
DvcIds == {1, 2}
\* channel ids the server may assign
DvcChannelIds == {1}

\* DvcProtocolMessage as decoded by process(); "garbage" fails to decode
DvcMsg(type, id, success) == [type |-> type, id |-> id, success |-> success]

AgentMessages ==
    {DvcMsg(t, 0, FALSE) : t \in {"handshake", "poll", "request", "garbage"}}
        \cup {DvcMsg("response", i, TRUE) : i \in DvcIds}

InitDvc ==
    /\ channel_id = 0
    /\ handshake = FALSE
    /\ command_tx = "none"
    /\ pending = [i \in DvcIds |-> 0]
    /\ consecutive_failures = 0
    /\ automation_lock = 0
    /\ dvc_pc = [c \in Callers |-> "idle"]
    /\ request_id = [c \in Callers |-> 0]
    /\ response_rx = [c \in Callers |-> "empty"]
    /\ dvc_result = "none"
    /\ dvc_calls = 0
    /\ returned_id = 0
    /\ dvc_out = <<>>
    /\ dvc_in = <<>>
    /\ agent_msgs = 0
    /\ helper_alive = TRUE
    /\ sent_after_kill = [c \in Callers |-> FALSE]
    /\ after_kill = <<>>
    /\ agent_ready = FALSE
    /\ ended = <<>>

\* a delivery that reaches every handler task
DvcDeliverAll(rx, c, v) == [x \in Callers |-> v]

\* tx.send(v) / drop(tx) on the one-shot of caller c (c = 0: no entry)
DvcDeliver(rx, c, v) == IF c # 0 THEN [rx EXCEPT ![c] = v] ELSE rx

\* a threshold test that never fires
FailureOutcomePlain(failures, plain) == plain

\* increment_failures followed by the threshold test
FailureOutcome(failures, plain) ==
    IF failures >= ConsecutiveFailureThreshold THEN "dead" ELSE plain

\* the session is wired to the fabric: command_tx = Some(sender)
SetCommandSender ==
    /\ command_tx = "none"
    /\ command_tx' = "open"
    /\ returned_id' = 0
    /\ UNCHANGED <<channel_id, handshake, pending, dvcCall, dvc_out, dvc_in, agent_msgs,
                   killVars, autoVars>>
    /\ UNCHANGED <<sessVars, rdpdrVars, daemonVars>>

\* the session that owned the DvcCommandReceiver ended
DropCommandReceiver ==
    /\ command_tx = "open"
    /\ command_tx' = "closed"
    /\ returned_id' = 0
    /\ UNCHANGED <<channel_id, handshake, pending, dvcCall, dvc_out, dvc_in, agent_msgs,
                   killVars, autoVars>>
    /\ UNCHANGED <<sessVars, rdpdrVars, daemonVars>>

\* AutomationDvc::start: the helper opened the channel
DvcStart(ch) ==
    /\ helper_alive
    /\ channel_id = 0
    /\ channel_id' = ch
    /\ returned_id' = 0
    /\ UNCHANGED <<handshake, command_tx, pending, dvcCall, dvc_out, dvc_in, agent_msgs,
                   killVars, autoVars>>
    /\ UNCHANGED <<sessVars, rdpdrVars, daemonVars>>

\* DvcIpc::is_ready: a handshake is stored and the channel is open
IsReady == handshake /\ channel_id # 0

\* AutomationBootstrap::wait_for_agent: the agent is marked ready once is_ready() holds
WaitForAgent ==
    /\ ~agent_ready
    /\ IsReady
    /\ agent_ready' = TRUE
    /\ returned_id' = 0
    /\ UNCHANGED <<dvcState, dvcCall, dvc_out, dvc_in, agent_msgs, killVars, ended>>
    /\ UNCHANGED <<sessVars, rdpdrVars, daemonVars>>

\* a drain that only drops the stored senders
DrainPendingDropped(rx, p) ==
    [c \in Callers |-> IF \E i \in DvcIds : p[i] = c THEN "dropped" ELSE rx[c]]

\* pending.drain(): every stored sender is sent the channel_closed DvcResponse
DrainPending(rx, p) ==
    [c \in Callers |-> IF \E i \in DvcIds : p[i] = c THEN "channel_closed" ELSE rx[c]]

\* AutomationDvc::close: clear channel_id and handshake, fail every pending request
DvcClose ==
    /\ channel_id # 0
    /\ channel_id' = 0
    /\ handshake' = FALSE
    /\ response_rx' = DrainPending(response_rx, pending)
    /\ pending' = [i \in DvcIds |-> 0]
    \* whatever was in flight on the channel is lost with it
    /\ dvc_out' = <<>>
    /\ dvc_in' = <<>>
    /\ returned_id' = 0
    /\ UNCHANGED <<command_tx, consecutive_failures, automation_lock, dvc_pc, request_id,
                   dvc_result, dvc_calls, agent_msgs, killVars, autoVars>>
    /\ UNCHANGED <<sessVars, rdpdrVars, daemonVars>>

\* handlers::automate::handle -> DvcIpc::send_request, up to the wait on the one-shot;
\* the automation-state mutex is held until send_request returns
DvcSendRequest(c, id) ==
    /\ dvc_pc[c] = "idle"
    /\ automation_lock = 0
    /\ dvc_calls < MaxDvcCalls
    /\ dvc_calls' = dvc_calls + 1
    \* the handler's own gate: agent_ready, or a handshake that has arrived by now
    /\ agent_ready' = (agent_ready \/ IsReady)
    /\ IF ~agent_ready'
       THEN \* "Automation agent not ready": send_request is not called
            /\ dvc_result' = "not_ready"
            /\ returned_id' = 0
            /\ after_kill' = IF helper_alive THEN after_kill
                              ELSE Append(after_kill, dvc_result')
            /\ UNCHANGED <<request_id, pending, response_rx, dvc_pc, automation_lock,
                           dvc_out, sent_after_kill, ended>>
       ELSE IF channel_id = 0 \/ command_tx # "open"
       THEN \* early return: nothing was registered
            /\ UNCHANGED request_id
            /\ dvc_result' = IF channel_id = 0 THEN "not_open"
                             ELSE IF command_tx = "none" THEN "no_sender"
                             ELSE "send_failed"
            /\ returned_id' = id
            /\ ended' = Append(ended, "early")
            /\ after_kill' = IF helper_alive THEN after_kill
                              ELSE Append(after_kill, dvc_result')
            /\ UNCHANGED <<pending, response_rx, dvc_pc, automation_lock, dvc_out,
                           sent_after_kill>>
       ELSE /\ request_id' = [request_id EXCEPT ![c] = id]
            /\ dvc_out' = Append(dvc_out, [channel_id |-> channel_id, id |-> id])
            \* pending.insert: a sender already stored under this id is dropped
            /\ response_rx' = [DvcDeliver(response_rx, pending[id], "dropped")
                                  EXCEPT ![c] = "empty"]
            /\ pending' = [pending EXCEPT ![id] = c]
            /\ dvc_pc' = [dvc_pc EXCEPT ![c] = "waiting"]
            /\ automation_lock' = c
            /\ returned_id' = 0
            /\ sent_after_kill' = [sent_after_kill EXCEPT ![c] = ~helper_alive]
            /\ UNCHANGED <<dvc_result, after_kill, ended>>
    /\ UNCHANGED <<channel_id, handshake, command_tx, consecutive_failures, dvc_in, agent_msgs,
                   helper_alive>>
    /\ UNCHANGED <<sessVars, rdpdrVars, daemonVars>>

\* timeout(self.timeout, rx) resolves with the one-shot: a response, or RecvError
DvcAwaitResolves(c) ==
    /\ dvc_pc[c] = "waiting"
    /\ response_rx[c] # "empty"
    /\ IF response_rx[c] = "dropped"
       THEN /\ consecutive_failures' = consecutive_failures + 1
            /\ dvc_result' = FailureOutcome(consecutive_failures', "closed")
            /\ ended' = Append(ended, "closed")
       ELSE /\ consecutive_failures' = 0
            /\ dvc_result' = response_rx[c]
            /\ ended' = Append(ended, "reply")
    /\ dvc_pc' = [dvc_pc EXCEPT ![c] = "idle"]
    /\ response_rx' = [response_rx EXCEPT ![c] = "empty"]
    /\ automation_lock' = 0
    /\ returned_id' = request_id[c]
    /\ request_id' = [request_id EXCEPT ![c] = 0]
    /\ after_kill' = IF sent_after_kill[c] THEN Append(after_kill, dvc_result')
                      ELSE after_kill
    /\ UNCHANGED <<dvcState, dvc_calls, dvc_out, dvc_in, agent_msgs, helper_alive,
                   sent_after_kill, agent_ready>>
    /\ UNCHANGED <<sessVars, rdpdrVars, daemonVars>>

\* a timeout arm that forgets the pending entry
TimeoutCleanupNone(p, id) == p

\* timeout arm: state.pending.remove(&request_id)
TimeoutCleanup(p, id) == [p EXCEPT ![id] = 0]

\* timeout(self.timeout, rx) elapses before the one-shot resolves
DvcTimeout(c) ==
    /\ dvc_pc[c] = "waiting"
    /\ response_rx[c] = "empty"
    /\ pending' = TimeoutCleanup(pending, request_id[c])
    /\ consecutive_failures' = consecutive_failures + 1
    /\ dvc_result' = FailureOutcome(consecutive_failures', "timeout")
    /\ ended' = Append(ended, "timeout")
    /\ dvc_pc' = [dvc_pc EXCEPT ![c] = "idle"]
    /\ automation_lock' = 0
    /\ returned_id' = request_id[c]
    /\ request_id' = [request_id EXCEPT ![c] = 0]
    /\ after_kill' = IF sent_after_kill[c] THEN Append(after_kill, dvc_result')
                      ELSE after_kill
    /\ UNCHANGED <<channel_id, handshake, command_tx, response_rx, dvc_calls,
                   dvc_out, dvc_in, agent_msgs, helper_alive, sent_after_kill, agent_ready>>
    /\ UNCHANGED <<sessVars, rdpdrVars, daemonVars>>

\* AutomationDvc::process on the oldest undelivered agent message
DvcProcess ==
    /\ dvc_in # <<>>
    /\ dvc_in' = Tail(dvc_in)
    /\ LET msg == Head(dvc_in) IN
       CASE msg.type = "handshake" ->
               /\ handshake' = TRUE
               /\ UNCHANGED <<pending, response_rx>>
         [] msg.type = "response" ->
               \* pending.remove(&id), then send on the removed sender if there was one
               /\ pending' = [pending EXCEPT ![msg.id] = 0]
               /\ response_rx' = DvcDeliver(response_rx, pending[msg.id],
                                            IF msg.success THEN "ok" ELSE "fail")
               /\ UNCHANGED handshake
         [] OTHER -> UNCHANGED <<handshake, pending, response_rx>>
    /\ returned_id' = 0
    /\ UNCHANGED <<channel_id, command_tx, consecutive_failures, automation_lock, dvc_pc,
                   request_id, dvc_result, dvc_calls, dvc_out, agent_msgs, killVars, autoVars>>
    /\ UNCHANGED <<sessVars, rdpdrVars, daemonVars>>

\* the agent takes the next request and answers it, or never does
AgentAnswers ==
    /\ dvc_out # <<>>
    /\ dvc_out' = Tail(dvc_out)
    /\ \E reply \in (IF helper_alive THEN {"ok", "fail", "none"} ELSE {"none"}) :
          dvc_in' = IF reply = "none" THEN dvc_in
                    ELSE Append(dvc_in, DvcMsg("response", Head(dvc_out).id, reply = "ok"))
    /\ returned_id' = 0
    /\ UNCHANGED <<dvcState, dvcCall, agent_msgs, killVars, autoVars>>
    /\ UNCHANGED <<sessVars, rdpdrVars, daemonVars>>

\* the agent writes a message of its own: handshake, poll, request, garbage, or a
\* response nobody asked for (late, duplicate or unknown id)
AgentSends(msg) ==
    /\ helper_alive
    /\ channel_id # 0
    /\ agent_msgs < MaxAgentMsgs
    /\ agent_msgs' = agent_msgs + 1
    /\ dvc_in' = Append(dvc_in, msg)
    /\ returned_id' = 0
    /\ UNCHANGED <<dvcState, dvcCall, dvc_out, killVars, autoVars>>
    /\ UNCHANGED <<sessVars, rdpdrVars, daemonVars>>

\* the helper process, running in the connected session and known to be ready, is
\* killed: it never writes to the channel again
HelperKilled ==
    /\ helper_alive
    /\ command_tx = "open"
    /\ channel_id # 0
    /\ agent_ready
    /\ helper_alive' = FALSE
    /\ returned_id' = 0
    /\ UNCHANGED <<dvcState, dvcCall, dvc_out, dvc_in, agent_msgs, sent_after_kill,
                   after_kill, autoVars>>
    /\ UNCHANGED <<sessVars, rdpdrVars, daemonVars>>

NextDvc ==
    \/ SetCommandSender
    \/ DropCommandReceiver
    \/ \E ch \in DvcChannelIds : DvcStart(ch)
    \/ DvcClose
    \/ \E c \in Callers, id \in DvcIds : DvcSendRequest(c, id)
    \/ \E c \in Callers : DvcAwaitResolves(c)
    \/ \E c \in Callers : DvcTimeout(c)
    \/ DvcProcess
    \/ AgentAnswers
    \/ \E msg \in AgentMessages : AgentSends(msg)
    \/ HelperKilled
    \/ WaitForAgent

(***************************************************************************)
(* RDPDR drive backend (rdpdr/mod.rs, rdpdr/file_ops.rs, rdpdr/set_ops.rs) *)
(* over a small local filesystem                                           *)
(***************************************************************************)
\* local paths are sequences of components
\* drive_paths as filled by add_drive: device id -> base path
DrivePaths == [d \in {1, 2} |-> IF d = 1 THEN <<"x">> ELSE <<"y">>]
\* device ids a request may carry; 3 is not registered
DeviceIds == {1, 2, 3}

\* the paths below a drive that requests name: a, a\b and b
RelPaths == {<<>>, <<"a">>, <<"a", "b">>, <<"b">>}
FsPaths == {DrivePaths[d] \o r : d \in DOMAIN DrivePaths, r \in RelPaths}

\* a path as the server writes it: every component preceded by a backslash
RECURSIVE ToWire(_)
ToWire(rel) == IF rel = <<>> THEN <<>> ELSE <<"\\", Head(rel)>> \o ToWire(Tail(rel))
\* a name that climbs out of the directory it is resolved in
EscapePaths == {<<"..", "y">>}
WirePaths == {ToWire(r) : r \in RelPaths \cup EscapePaths}

\* path.replace('\\', "/"), trim_start_matches('/'), then PathBuf::join's view of it
IsSeparator(ch) == ch \in {"\\", "/"}
Components(wire) == SelectSeq(wire, LAMBDA ch : ~IsSeparator(ch))
ResolvePath(base, wire) == base \o Components(wire)

IsPrefix(p, q) == Len(p) <= Len(q) /\ SubSeq(q, 1, Len(p)) = p
Parent(p) == IF p = <<>> THEN <<>> ELSE SubSeq(p, 1, Len(p) - 1)

\* the location the operating system reaches for a path: ".." steps to the parent
\* directory (the root is its own parent), "." stays
RECURSIVE Walk(_, _)
Walk(at, p) ==
    IF p = <<>> THEN at
    ELSE IF Head(p) = ".." THEN Walk(Parent(at), Tail(p))
    ELSE IF Head(p) = "." THEN Walk(at, Tail(p))
    ELSE Walk(Append(at, Head(p)), Tail(p))
Canon(p) == Walk(<<>>, p)

\* the root directory exists; nothing else outside the drives does
RealKind(f, r) == IF r = <<>> THEN "dir" ELSE IF r \in FsPaths THEN f[r] ELSE "none"
\* every component before the last one must lead through a directory
Prefixes(p) == {SubSeq(p, 1, k) : k \in 1..Len(p)}
Traversable(f, p) == \A q \in Prefixes(p) \ {p} : RealKind(f, Canon(q)) = "dir"
Kind(f, p) == IF Traversable(f, p) THEN RealKind(f, Canon(p)) ELSE "none"
IsDir(f, p) == Kind(f, p) = "dir"
Children(f, p) == {q \in FsPaths : Parent(q) = Canon(p) /\ Len(q) > 0 /\ f[q] # "none"}

\* fs::create_dir_all: every missing ancestor is created
CanCreateDirAll(f, p) ==
    \A q \in Prefixes(p) : Canon(q) = <<>> \/ (Canon(q) \in FsPaths /\ f[Canon(q)] # "file")
CreateDirAll(f, p) ==
    [r \in FsPaths |-> IF \E q \in Prefixes(p) : Canon(q) = r THEN "dir" ELSE f[r]]

\* fs::remove_file / fs::remove_dir
CanRemoveFile(f, p) == Kind(f, p) = "file"
CanRemoveDir(f, p) == Kind(f, p) = "dir" /\ Children(f, p) = {}
Remove(f, p) == [f EXCEPT ![Canon(p)] = "none"]

\* fs::rename
Moved(from, to, q) == from \o SubSeq(q, Len(to) + 1, Len(q))
CanRenameReal(f, from, to) ==
    /\ Kind(f, from) # "none"
    /\ to \in FsPaths
    /\ IsDir(f, Parent(to))
    /\ \/ from = to
       \/ /\ ~IsPrefix(from, to)
          /\ \/ f[to] = "none"
             \/ f[from] = "file" /\ f[to] = "file"
             \/ f[from] = "dir" /\ f[to] = "dir" /\ Children(f, to) = {}
          \* everything below from has a place below to
          /\ \A q \in FsPaths :
                (IsPrefix(from, q) /\ f[q] # "none")
                    => to \o SubSeq(q, Len(from) + 1, Len(q)) \in FsPaths
CanRename(f, from, to) ==
    /\ Kind(f, from) # "none"
    /\ Traversable(f, to)
    /\ CanRenameReal(f, Canon(from), Canon(to))
RenameReal(f, from, to) ==
    IF from = to THEN f
    ELSE [q \in FsPaths |->
            IF IsPrefix(to, q) THEN Kind(f, Moved(from, to, q))
            ELSE IF IsPrefix(from, q) THEN "none"
            ELSE f[q]]
\* a rename done as copy to the target, then removal of the source
RenameCopyRemove(f, from, to) ==
    [q \in FsPaths |->
        IF IsPrefix(Canon(from), q) THEN "none"
        ELSE IF IsPrefix(Canon(to), q) THEN Kind(f, Moved(Canon(from), Canon(to), q))
        ELSE f[q]]

\* fs::rename
Rename(f, from, to) == RenameReal(f, Canon(from), Canon(to))

\* HashMap insert / remove
MapInsert(m, k, v) == [i \in DOMAIN m \cup {k} |-> IF i = k THEN v ELSE m[i]]
MapRemove(m, k) == [i \in DOMAIN m \ {k} |-> m[i]]
EmptyMap == [i \in {} |-> 0]

\* a reply: operation, NtStatus and, for a query-directory reply with a buffer, the
\* file name it carries and the directory entry it was built from
ReplyEntry(op, status, name, entry) ==
    [op |-> op, status |-> status, name |-> name, entry |-> entry]
Reply(op, status, id) == ReplyEntry(op, status, "", "")

InitRdpdr ==
    /\ file_id = 0
    /\ file_map = EmptyMap
    /\ file_path_map = EmptyMap
    /\ file_device_map = EmptyMap
    /\ delete_on_close = EmptyMap
    /\ file_dir_map = EmptyMap
    \* the shared directories exist; the first one holds a file already
    /\ fs = [p \in FsPaths |-> IF Len(p) = 1 THEN "dir"
                               ELSE IF p = <<"x", "a">> THEN "file" ELSE "none"]
    /\ drive_reply = Reply("none", "none", 0)
    /\ closed = <<>>
    /\ unmarked = {}
    /\ drive_requests = 0
    /\ repeated = FALSE
    /\ resolved = <<>>
    /\ create_reply = <<>>
    /\ created_ids = <<>>
    /\ queried = <<>>

\* handle_drive_io_request takes one more request from the server
TakesRequest ==
    /\ drive_requests < MaxDriveRequests
    /\ drive_requests' = drive_requests + 1

CreateDispositions ==
    {"FILE_SUPERSEDE", "FILE_OPEN", "FILE_CREATE", "FILE_OPEN_IF", "FILE_OVERWRITE",
     "FILE_OVERWRITE_IF"}
\* the two CreateOptions bits create_drive looks at
CreateOptionSets == {{}, {"FILE_DIRECTORY_FILE"}, {"FILE_NON_DIRECTORY_FILE"}}

\* fs::OpenOptions::open as configured for the disposition, on a path that is no directory
CanOpen(f, path, disposition) ==
    LET exists == Kind(f, path) = "file"
        creatable == /\ Canon(path) \in FsPaths
                     /\ f[Canon(path)] = "none"
                     /\ Traversable(f, path)
    IN  CASE disposition \in {"FILE_OPEN_IF", "FILE_SUPERSEDE", "FILE_OVERWRITE_IF"} ->
                exists \/ creatable
          [] disposition = "FILE_CREATE" -> creatable
          [] OTHER -> exists

\* an insert that forgets the device of the handle
InsertHandleNoDevice(id, device_id, path, kind) ==
    /\ file_map' = MapInsert(file_map, id, kind)
    /\ file_path_map' = MapInsert(file_path_map, id, path)
    /\ UNCHANGED file_device_map

\* MultiDriveBackend::insert_directory / insert_file
InsertHandle(id, device_id, path, kind) ==
    /\ file_map' = MapInsert(file_map, id, kind)
    /\ file_path_map' = MapInsert(file_path_map, id, path)
    /\ file_device_map' = MapInsert(file_device_map, id, device_id)

\* create_drive: the outcome for a resolved path, "dir" / "file" handle or a failure status
CreateOutcome(path, disposition, options) ==
    IF Kind(fs, path) = "dir"
    THEN IF disposition = "FILE_CREATE" \/ "FILE_NON_DIRECTORY_FILE" \in options
         THEN [ok |-> FALSE, status |-> "UNSUCCESSFUL"]
         ELSE [ok |-> TRUE, kind |-> "dir", fs |-> fs]
    ELSE IF Kind(fs, path) = "file" /\ "FILE_DIRECTORY_FILE" \in options
    THEN [ok |-> FALSE, status |-> "NOT_A_DIRECTORY"]
    ELSE IF Kind(fs, path) = "none" /\ "FILE_DIRECTORY_FILE" \in options
    THEN IF disposition \in {"FILE_CREATE", "FILE_OPEN_IF"} /\ CanCreateDirAll(fs, path)
         THEN [ok |-> TRUE, kind |-> "dir", fs |-> CreateDirAll(fs, path)]
         ELSE [ok |-> FALSE, status |-> "UNSUCCESSFUL"]
    ELSE IF CanOpen(fs, path, disposition)
    THEN [ok |-> TRUE, kind |-> "file", fs |-> [fs EXCEPT ![Canon(path)] = "file"]]
    ELSE [ok |-> FALSE, status |-> "UNSUCCESSFUL"]

\* make_create_drive_resp: the information field of a success reply
MakeCreateDriveResp(create_disposition) ==
    CASE create_disposition \in {"FILE_CREATE", "FILE_SUPERSEDE", "FILE_OPEN", "FILE_OVERWRITE"} ->
            "FILE_SUPERSEDED"
      [] create_disposition = "FILE_OPEN_IF" -> "FILE_OPENED"
      [] create_disposition = "FILE_OVERWRITE_IF" -> "FILE_OVERWRITTEN"
      [] OTHER -> "empty"

\* a counter that hands out the same id again
NextFileIdStuck(counter) == [id |-> counter, next |-> counter]

\* next_file_id: the id handed out and the counter after it
NextFileId(counter) == [id |-> counter, next |-> counter + 1]

\* create_drive
CreateDrive(device_id, wire, disposition, options) ==
    LET alloc == NextFileId(file_id)
        id == alloc.id
    IN
    /\ TakesRequest
    /\ repeated' = FALSE
    /\ Len(created_ids) < MaxCreates
    \* next_file_id() comes first, whatever the outcome
    /\ file_id' = alloc.next
    /\ created_ids' = Append(created_ids, id)
    /\ closed' = <<>>
    /\ queried' = <<>>
    /\ IF device_id \notin DOMAIN DrivePaths
       THEN /\ drive_reply' = Reply("create", "UNSUCCESSFUL", id)
            /\ create_reply' = <<[file_id |-> id, information |-> "empty",
                                  disposition |-> disposition, existed |-> FALSE]>>
            /\ resolved' = <<>>
            /\ UNCHANGED <<file_map, file_path_map, file_device_map, fs>>
       ELSE LET path == ResolvePath(DrivePaths[device_id], wire)
                out == CreateOutcome(path, disposition, options)
            IN  /\ resolved' = <<[device |-> device_id, path |-> path, id |-> id]>>
                /\ create_reply' =
                      <<[file_id |-> id,
                         information |-> IF out.ok THEN MakeCreateDriveResp(disposition)
                                         ELSE "empty",
                         disposition |-> disposition,
                         existed |-> Kind(fs, path) # "none"]>>
                /\ IF out.ok
                   THEN /\ InsertHandle(id, device_id, path, out.kind)
                        /\ fs' = out.fs
                        /\ drive_reply' = Reply("create", "SUCCESS", id)
                   ELSE /\ drive_reply' = Reply("create", out.status, id)
                        /\ UNCHANGED <<file_map, file_path_map, file_device_map, fs>>
    /\ UNCHANGED <<delete_on_close, file_dir_map, unmarked>>
    /\ UNCHANGED <<sessVars, dvcVars, daemonVars>>

\* a rename that leaves the handle bound to the old path
RebindNever(paths, id, to) == paths

\* file_path_map.insert(file_id, to) after a successful fs::rename
Rebind(paths, id, to) == MapInsert(paths, id, to)

\* set_information, FileInformationClass::Rename: the new name is resolved against the
\* base path of the device id the request carries
SetInformationRename(device_id, id, wire) ==
    /\ TakesRequest
    /\ closed' = <<>>
    /\ IF id \notin DOMAIN file_path_map
       THEN /\ drive_reply' = Reply("set_information.Rename", "NO_SUCH_FILE", id)
            /\ resolved' = <<>>
            /\ UNCHANGED <<file_path_map, fs>>
       ELSE IF device_id \notin DOMAIN DrivePaths
       THEN /\ drive_reply' = Reply("set_information.Rename", "UNSUCCESSFUL", id)
            /\ resolved' = <<>>
            /\ UNCHANGED <<file_path_map, fs>>
       ELSE LET to == ResolvePath(DrivePaths[device_id], wire) IN
            /\ resolved' = <<[device |-> device_id, path |-> to, id |-> id]>>
            /\ IF CanRename(fs, file_path_map[id], to)
               THEN /\ fs' = Rename(fs, file_path_map[id], to)
                    /\ file_path_map' = Rebind(file_path_map, id, to)
                    /\ drive_reply' = Reply("set_information.Rename", "SUCCESS", id)
               ELSE /\ drive_reply' = Reply("set_information.Rename", "UNSUCCESSFUL", id)
                    /\ UNCHANGED <<file_path_map, fs>>
    /\ repeated' = /\ drive_reply.op = "set_information.Rename"
                    /\ resolved # <<>>
                    /\ resolved' = resolved
    /\ create_reply' = <<>>
    /\ queried' = <<>>
    /\ UNCHANGED <<file_id, created_ids, file_map, file_device_map, delete_on_close,
                   file_dir_map, unmarked>>
    /\ UNCHANGED <<sessVars, dvcVars, daemonVars>>

\* the disposition arm of the older backend (rdpdr_backend.rs): fs::remove_file at once
DispositionFsImmediate(f, path, delete_pending) ==
    IF CanRemoveFile(f, path) THEN Remove(f, path) ELSE f

\* set_information, FileInformationClass::Disposition: what the arm does to the filesystem
DispositionFs(f, path, delete_pending) == f

\* set_information, FileInformationClass::Disposition: mark or unmark for deletion
SetInformationDisposition(id, delete_pending) ==
    /\ TakesRequest
    /\ repeated' = FALSE
    /\ closed' = <<>>
    /\ IF id \notin DOMAIN file_path_map
       THEN /\ drive_reply' = Reply("set_information.Disposition", "NO_SUCH_FILE", id)
            /\ UNCHANGED <<delete_on_close, unmarked, fs>>
       ELSE /\ delete_on_close' = IF delete_pending
                                  THEN MapInsert(delete_on_close, id, TRUE)
                                  ELSE MapRemove(delete_on_close, id)
            /\ unmarked' = IF delete_pending THEN unmarked \ {id}
                           ELSE IF id \in DOMAIN delete_on_close THEN unmarked \cup {id}
                           ELSE unmarked
            /\ fs' = DispositionFs(fs, file_path_map[id], delete_pending)
            /\ drive_reply' = Reply("set_information.Disposition", "SUCCESS", id)
    /\ resolved' = <<>>
    /\ create_reply' = <<>>
    /\ queried' = <<>>
    /\ UNCHANGED <<file_id, created_ids, file_map, file_path_map, file_device_map,
                   file_dir_map>>
    /\ UNCHANGED <<sessVars, dvcVars, daemonVars>>

\* close_device: what is left of the filesystem after the deletion attempts
RemoveOnClose(f, path) ==
    IF CanRemoveFile(f, path) THEN Remove(f, path)
    ELSE IF CanRemoveDir(f, path) THEN Remove(f, path)
    ELSE f

\* close_device
CloseDevice(id) ==
    LET should_delete == id \in DOMAIN delete_on_close /\ delete_on_close[id]
        has_path == id \in DOMAIN file_path_map
    IN  /\ TakesRequest
        /\ repeated' = FALSE
        /\ delete_on_close' = MapRemove(delete_on_close, id)
        /\ file_map' = MapRemove(file_map, id)
        /\ file_path_map' = MapRemove(file_path_map, id)
        /\ file_device_map' = MapRemove(file_device_map, id)
        /\ file_dir_map' = MapRemove(file_dir_map, id)
        /\ fs' = IF should_delete /\ has_path
                 THEN RemoveOnClose(fs, file_path_map[id]) ELSE fs
        /\ closed' = IF has_path
                     THEN <<[id |-> id, path |-> file_path_map[id],
                             should_delete |-> should_delete,
                             unmarked |-> id \in unmarked]>>
                     ELSE <<>>
        /\ unmarked' = unmarked \ {id}
        /\ drive_reply' = Reply("close", "SUCCESS", id)
        /\ resolved' = <<>>
        /\ create_reply' = <<>>
        /\ queried' = <<>>
        /\ UNCHANGED <<file_id, created_ids>>
        /\ UNCHANGED <<sessVars, dvcVars, daemonVars>>

FileIds == 0..MaxCreates

\* the names a directory stream of the operating system holds: "." and ".." and the
\* children, in no particular order
DotEntries == {".", ".."}
RawNames(f, dir) == DotEntries \cup {q[Len(q)] : q \in Children(f, dir)}
Orders(S) == {o \in [1..Cardinality(S) -> S] : \A i, j \in DOMAIN o : i # j => o[i] # o[j]}

\* a directory iterator that hands out everything the stream holds
ReadDirRaw(names) == names

\* fs::read_dir: the iterator of the standard library leaves out "." and ".."
ReadDir(names) == names \ DotEntries

\* the loop of the initial query: entries are consumed up to the first one that is
\* neither "." nor ".."
RECURSIVE SkipDots(_)
SkipDots(iter) ==
    IF iter # <<>> /\ Head(iter) \in DotEntries THEN SkipDots(Tail(iter)) ELSE iter

\* Path::file_name: the last component, a trailing "." not counting; None for the
\* empty path and for a path that ends in ".."
RECURSIVE FileName(_)
FileName(path) ==
    IF path = <<>> \/ path[Len(path)] = ".." THEN ""
    ELSE IF path[Len(path)] = "." THEN FileName(SubSeq(path, 1, Len(path) - 1))
    ELSE path[Len(path)]

\* the information classes a query names: the one the backend answers, and another
FileClasses == {"FILE_BOTH_DIRECTORY_INFORMATION", "FILE_NAMES_INFORMATION"}

\* make_query_dir_resp; find = <<>> is None, <<path>> is Some(path)
MakeQueryDirResp(f, find, file_class, initial_query) ==
    LET not_found_status == IF initial_query THEN "NO_SUCH_FILE" ELSE "NO_MORE_FILES" IN
    IF find = <<>> THEN Reply("query_directory", not_found_status, 0)
    ELSE IF Kind(f, find[1]) = "none" THEN Reply("query_directory", not_found_status, 0)
    ELSE IF file_class = "FILE_BOTH_DIRECTORY_INFORMATION"
         THEN ReplyEntry("query_directory", "SUCCESS", FileName(find[1]), "")
         ELSE Reply("query_directory", "NOT_SUPPORTED", 0)

\* the paths a query-directory request names: wildcards and specific files
QueryPaths == {<<"\\", "*">>, ToWire(<<"a">>), ToWire(<<"..">>)}

\* the reply with a buffer remembers the entry of the directory stream it describes
FromEntry(reply, entry) ==
    IF reply.status = "SUCCESS" THEN [reply EXCEPT !.entry = entry] ELSE reply

\* what a query-directory request had at hand
Queried(initial, found, next) == <<[initial |-> initial, found |-> found, next |-> next]>>

\* query_directory
QueryDirectory(device_id, id, query, file_class, initial_query) ==
    /\ TakesRequest
    /\ repeated' = FALSE
    /\ closed' = <<>>
    /\ create_reply' = <<>>
    /\ IF id \notin DOMAIN file_path_map \/ device_id \notin DOMAIN DrivePaths
       THEN /\ drive_reply' = Reply("query_directory", "NO_SUCH_FILE", id)
            /\ resolved' = <<>>
            /\ queried' = <<>>
            /\ UNCHANGED file_dir_map
       ELSE IF initial_query /\ query[Len(query)] = "*"
       THEN LET dir_path == ResolvePath(DrivePaths[device_id],
                                        SubSeq(query, 1, Len(query) - 1))
            IN  /\ resolved' = <<[device |-> device_id, path |-> dir_path, id |-> id]>>
                /\ IF IsDir(fs, dir_path)
                   THEN \E stream \in Orders(ReadDir(RawNames(fs, dir_path))) :
                           LET rest == SkipDots(stream)
                               find == IF rest = <<>> THEN <<>>
                                       ELSE <<Append(dir_path, Head(rest))>>
                           IN  /\ file_dir_map' =
                                     MapInsert(file_dir_map, id,
                                               [iter |-> IF rest = <<>> THEN <<>>
                                                         ELSE Tail(rest),
                                                base_path |-> dir_path])
                               /\ queried' = Queried(TRUE, rest # <<>>,
                                                     IF rest = <<>> THEN "" ELSE Head(rest))
                               /\ drive_reply' =
                                     FromEntry(MakeQueryDirResp(fs, find, file_class, TRUE),
                                               IF rest = <<>> THEN "" ELSE Head(rest))
                   ELSE /\ drive_reply' = MakeQueryDirResp(fs, <<>>, file_class, TRUE)
                        /\ queried' = Queried(TRUE, FALSE, "")
                        /\ UNCHANGED file_dir_map
       ELSE IF initial_query
       THEN LET full_path == ResolvePath(DrivePaths[device_id], query) IN
            /\ resolved' = <<[device |-> device_id, path |-> full_path, id |-> id]>>
            /\ queried' = Queried(TRUE, Kind(fs, full_path) # "none", FileName(full_path))
            /\ drive_reply' = MakeQueryDirResp(fs, <<full_path>>, file_class, TRUE)
            /\ UNCHANGED file_dir_map
       ELSE /\ resolved' = <<>>
            /\ IF id \in DOMAIN file_dir_map /\ file_dir_map[id].iter # <<>>
               THEN LET dir_state == file_dir_map[id] IN
                    /\ file_dir_map' =
                          MapInsert(file_dir_map, id,
                                    [dir_state EXCEPT !.iter = Tail(dir_state.iter)])
                    /\ queried' = Queried(FALSE, TRUE, Head(dir_state.iter))
                    /\ drive_reply' =
                          FromEntry(MakeQueryDirResp(fs, <<Append(dir_state.base_path,
                                                                  Head(dir_state.iter))>>,
                                                     file_class, FALSE),
                                    Head(dir_state.iter))
               ELSE /\ drive_reply' = MakeQueryDirResp(fs, <<>>, file_class, FALSE)
                    /\ queried' = Queried(FALSE, FALSE, "")
                    /\ UNCHANGED file_dir_map
    /\ UNCHANGED <<file_id, created_ids, file_map, file_path_map, file_device_map,
                   delete_on_close, fs, unmarked>>
    /\ UNCHANGED <<sessVars, dvcVars, daemonVars>>

\* the requests handle_drive_io_request has no backend operation for
UnsupportedRequests == {"notify_change_directory", "device_control", "lock_control"}

\* no message goes back to the server
NoMessages(op) == Reply(op, "none", 0)

\* handle_drive_io_request, the arms for change-notify, device-control and lock-control:
\* only a device-control request is answered (SUCCESS, output_buffer None)
HandleUnsupported(op) ==
    /\ TakesRequest
    /\ repeated' = FALSE
    /\ closed' = <<>>
    /\ resolved' = <<>>
    /\ create_reply' = <<>>
    /\ queried' = <<>>
    /\ drive_reply' = IF op = "device_control" THEN Reply(op, "SUCCESS", 0)
                      ELSE NoMessages(op)
    /\ UNCHANGED <<file_id, created_ids, file_map, file_path_map, file_device_map,
                   delete_on_close, file_dir_map, fs, unmarked>>
    /\ UNCHANGED <<sessVars, dvcVars, daemonVars>>

NextRdpdr ==
    \/ \E d \in DeviceIds, w \in WirePaths, cd \in CreateDispositions, co \in CreateOptionSets :
          CreateDrive(d, w, cd, co)
    \/ \E d \in DeviceIds, id \in FileIds, w \in WirePaths : SetInformationRename(d, id, w)
    \/ \E id \in FileIds, dp \in BOOLEAN : SetInformationDisposition(id, dp)
    \/ \E id \in FileIds : CloseDevice(id)
    \/ \E d \in DeviceIds, id \in FileIds, q \in QueryPaths, fc \in FileClasses :
          QueryDirectory(d, id, q, fc, TRUE)
    \* a continuation carries no path
    \/ \E d \in DeviceIds, id \in FileIds, fc \in FileClasses :
          QueryDirectory(d, id, <<>>, fc, FALSE)
    \/ \E op \in UnsupportedRequests : HandleUnsupported(op)

(***************************************************************************)
(* The daemon's request handlers (daemon.rs, handlers/*.rs)                *)
(***************************************************************************)
\* strings are sequences of one-character strings
Str_ctrl == <<"c", "t", "r", "l">>
Str_up == <<"u", "p">>

\* some rows of the key_map of key_to_scancode: name -> (scancode, extended)
KeyMap ==
    [k \in {Str_ctrl, Str_up, <<"c">>, <<"=">>} |->
        CASE k = Str_ctrl -> <<29, FALSE>>
          [] k = Str_up -> <<72, TRUE>>
          [] k = <<"c">> -> <<46, FALSE>>
          [] OTHER -> <<13, FALSE>>]

\* char::to_lowercase on the letters the inputs use
LowerChar(ch) ==
    CASE ch = "C" -> "c"
      [] ch = "T" -> "t"
      [] ch = "R" -> "r"
      [] ch = "L" -> "l"
      [] ch = "U" -> "u"
      [] ch = "P" -> "p"
      [] OTHER -> ch
ToLowercase(str) == [i \in 1..Len(str) |-> LowerChar(str[i])]

\* str::trim
IsWhitespace(ch) == ch = " "
RECURSIVE TrimStart(_)
TrimStart(str) ==
    IF str # <<>> /\ IsWhitespace(Head(str)) THEN TrimStart(Tail(str)) ELSE str
RECURSIVE TrimEnd(_)
TrimEnd(str) ==
    IF str # <<>> /\ IsWhitespace(str[Len(str)])
    THEN TrimEnd(SubSeq(str, 1, Len(str) - 1)) ELSE str
Trim(str) == TrimEnd(TrimStart(str))

\* str::split(sep): the pieces between the separators, empty pieces included
RECURSIVE SplitFrom(_, _, _)
SplitFrom(str, sep, piece) ==
    IF str = <<>> THEN <<piece>>
    ELSE IF Head(str) = sep THEN <<piece>> \o SplitFrom(Tail(str), sep, <<>>)
    ELSE SplitFrom(Tail(str), sep, Append(piece, Head(str)))
Split(str, sep) == SplitFrom(str, sep, <<>>)

\* key_to_scancode
KeyToScancode(key) ==
    LET key_lower == ToLowercase(key)
    IN  IF key_lower \in DOMAIN KeyMap THEN Some(KeyMap[key_lower]) ELSE None

\* parse_key_combination: split at '+', trim and lowercase every part, look every part up;
\* the first unknown part fails the whole combination
ParseParts(keys) ==
    LET raw == Split(keys, "+") IN [i \in 1..Len(raw) |-> ToLowercase(Trim(raw[i]))]

\* a parser that leaves unknown parts out instead of failing
ParseKeyCombinationLenient(keys) ==
    LET parts == SelectSeq(ParseParts(keys), LAMBDA k : KeyToScancode(k) # None)
    IN  [ok |-> TRUE, key_infos |-> [i \in 1..Len(parts) |-> KeyToScancode(parts[i])[1]]]

ParseKeyCombination(keys) ==
    LET parts == ParseParts(keys)
    IN  IF \E i \in 1..Len(parts) : KeyToScancode(parts[i]) = None
        THEN [ok |-> FALSE, key_infos |-> <<>>]
        ELSE [ok |-> TRUE, key_infos |-> [i \in 1..Len(parts) |-> KeyToScancode(parts[i])[1]]]

\* FastPathInputEvent
Event(type, code, extended, release, flags, units) ==
    [type |-> type, code |-> code, extended |-> extended, release |-> release,
     flags |-> flags, units |-> units]

\* create_key_event_ext
CreateKeyEventExt(info, release) ==
    Event("KeyboardEvent", info[1], info[2], release, {}, 0)

\* `ch as u16` and the press / release pair keyboard type sends for a character
UnicodePair(ch) ==
    LET code == ch % 65536
    IN  <<Event("UnicodeKeyboardEvent", code, FALSE, FALSE, {}, 0),
          Event("UnicodeKeyboardEvent", code, FALSE, TRUE, {}, 0)>>

\* create_mouse_event
CreateMouseEvent(flags) == Event("MouseEvent", 0, FALSE, FALSE, flags, 0)

\* wheel events as mouse_to_fastpath of the viewer builds them: the sign is carried by
\* the rotation units alone
CreateScrollEventsUnflagged(direction, amount) ==
    LET wheel_units == IF direction \in {"Up", "Right"} THEN 120 ELSE -120
        axis == IF direction \in {"Up", "Down"} THEN "VERTICAL_WHEEL" ELSE "HORIZONTAL_WHEEL"
    IN  [i \in 1..amount |-> Event("MouseEvent", 0, FALSE, FALSE, {axis}, wheel_units)]

\* create_vertical_scroll_events / create_horizontal_scroll_events
CreateScrollEvents(direction, amount) ==
    LET wheel_units == IF direction \in {"Up", "Right"} THEN 120 ELSE -120
        axis == IF direction \in {"Up", "Down"} THEN "VERTICAL_WHEEL" ELSE "HORIZONTAL_WHEEL"
        flags == IF wheel_units < 0 THEN {axis, "WHEEL_NEGATIVE"} ELSE {axis}
    IN  [i \in 1..amount |-> Event("MouseEvent", 0, FALSE, FALSE, flags, wheel_units)]

\* a request as the dispatcher of handle_request hands it to its handler
Req(kind, keys, text, drives, dir, n) ==
    [kind |-> kind, keys |-> keys, text |-> text, drives |-> drives, dir |-> dir, n |-> n]
NoRequest == Req("none", <<>>, <<>>, <<>>, "", 0)

\* ConnectRequest.drives: local paths, shared under names of their own
DriveMapping(path, name) == [path |-> path, name |-> name]
DriveConfigs ==
    {<<>>, <<DriveMapping("x", "X")>>, <<DriveMapping("x", "X"), DriveMapping("y", "Y")>>}
\* key strings of keyboard press: "", "c", " C ", "ctrl+c", "c+", "?", "ctrl+?"
KeyStrings ==
    {<<>>, <<"c">>, <<" ", "C", " ">>, Str_ctrl \o <<"+", "c">>, <<"c", "+">>, <<"?">>,
     Str_ctrl \o <<"+", "?">>}
\* texts of keyboard type, as code points: "", "hi" and one character beyond the BMP
TypeTexts == {<<>>, <<104, 105>>, <<128512>>}
ScrollDirections == {"Up", "Down", "Left", "Right"}
ScrollAmounts == {0, 2}

Requests ==
    {Req("Connect", <<>>, <<>>, d, "", 0) : d \in DriveConfigs}
    \cup {Req(k, <<>>, <<>>, <<>>, "", 0) :
            k \in {"Disconnect", "Screenshot", "Mouse.Click", "Mouse.Move", "Clipboard",
                   "Automate", "Shutdown"}}
    \cup {Req("Keyboard.Press", k, <<>>, <<>>, "", 0) : k \in KeyStrings}
    \cup {Req(k, key, <<>>, <<>>, "", 0) :
            k \in {"Keyboard.KeyDown", "Keyboard.KeyUp"}, key \in {<<"c">>, <<"?">>}}
    \cup {Req("Keyboard.Type", <<>>, t, <<>>, "", 0) : t \in TypeTexts}
    \cup {Req("Scroll", <<>>, <<>>, <<>>, d, n) : d \in ScrollDirections, n \in ScrollAmounts}

InitDaemon ==
    /\ rdp_session = "none"
    /\ config_drives = <<>>
    /\ drive_list = <<>>
    /\ backend_root = <<>>
    /\ connect_failure = <<>>
    /\ client_pc = [c \in Callers |-> "idle"]
    /\ request = [c \in Callers |-> NoRequest]
    /\ response = [c \in Callers |-> "none"]
    /\ step = [c \in Callers |-> 0]
    /\ no_session = [c \in Callers |-> FALSE]
    /\ serial = [c \in Callers |-> 0]
    /\ requests_issued = 0
    /\ delivered = <<>>
    /\ conn = [c \in Callers |-> "open"]
    /\ lines_read = [c \in Callers |-> 0]
    /\ lines_written = [c \in Callers |-> 0]
    /\ daemon_run = "running"
    /\ session_id = 0
    /\ actors = {}
    /\ disconnect_rx = <<>>
    /\ shutdown_by = <<>>

wiringVars == <<config_drives, drive_list, backend_root, connect_failure>>
runVars == <<daemon_run, session_id, actors, disconnect_rx, shutdown_by>>
lineVars == <<conn, lines_read>>
issueVars == <<request, no_session, serial, requests_issued>>

\* a line that serde_json::from_str::<Request> rejects
MalformedLine == Req("malformed", <<>>, <<>>, <<>>, "", 0)

\* handle_client, read_line: the connection of client c is served, its previous line is
\* answered, and the client has written another line
Reads(c) ==
    /\ daemon_run = "running"
    /\ conn[c] = "open"
    /\ client_pc[c] = "idle"
    /\ requests_issued < MaxRequests

\* handle_client reads a request line of client c and dispatches it
Issue(c, r) ==
    /\ Reads(c)
    /\ lines_read' = [lines_read EXCEPT ![c] = @ + 1]
    /\ requests_issued' = requests_issued + 1
    /\ serial' = [serial EXCEPT ![c] = requests_issued + 1]
    /\ request' = [request EXCEPT ![c] = r]
    /\ response' = [response EXCEPT ![c] = "none"]
    /\ step' = [step EXCEPT ![c] = 0]
    /\ client_pc' = [client_pc EXCEPT ![c] = "run"]
    /\ no_session' = [no_session EXCEPT ![c] = rdp_session = "none"]
    /\ UNCHANGED <<rdp_session, wiringVars, delivered, conn, lines_written, runVars>>
    /\ UNCHANGED <<sessVars, dvcVars, rdpdrVars>>

\* a line that is not a Request and is passed over without a response
IssueMalformedSilent(c) ==
    /\ Reads(c)
    /\ lines_read' = [lines_read EXCEPT ![c] = @ + 1]
    /\ requests_issued' = requests_issued + 1
    /\ serial' = [serial EXCEPT ![c] = requests_issued + 1]
    /\ request' = [request EXCEPT ![c] = MalformedLine]
    /\ response' = [response EXCEPT ![c] = "none"]
    /\ UNCHANGED <<rdp_session, wiringVars, delivered, conn, lines_written, runVars,
                   client_pc, step, no_session>>
    /\ UNCHANGED <<sessVars, dvcVars, rdpdrVars>>

\* handle_client reads a line that serde_json cannot parse as a Request: it writes an
\* invalid_request response and goes on to the next line
IssueMalformed(c) ==
    /\ Reads(c)
    /\ lines_read' = [lines_read EXCEPT ![c] = @ + 1]
    /\ requests_issued' = requests_issued + 1
    /\ serial' = [serial EXCEPT ![c] = requests_issued + 1]
    /\ request' = [request EXCEPT ![c] = MalformedLine]
    /\ response' = [response EXCEPT ![c] = "invalid_request"]
    /\ lines_written' = [lines_written EXCEPT ![c] = @ + 1]
    /\ UNCHANGED <<rdp_session, wiringVars, delivered, conn, runVars,
                   client_pc, step, no_session>>
    /\ UNCHANGED <<sessVars, dvcVars, rdpdrVars>>

\* the handler of client c is working on a request of one of these kinds; handlers run
\* as long as the daemon's process does
Handles(c, kinds) ==
    /\ daemon_run = "running"
    /\ client_pc[c] = "run"
    /\ request[c].kind \in kinds

\* the handler returns its Response and handle_client writes it as one line
Respond(c, code) ==
    /\ response' = [response EXCEPT ![c] = code]
    /\ client_pc' = [client_pc EXCEPT ![c] = "idle"]
    /\ lines_written' = [lines_written EXCEPT ![c] = @ + 1]

\* the handler goes on to its next lock scope
Continue(c) ==
    /\ step' = [step EXCEPT ![c] = step[c] + 1]
    /\ UNCHANGED <<response, client_pc, lines_written>>

\* one lock scope of an input handler: lock, look for the session, send_input(events);
\* last tells whether the handler returns Response::ok() after this scope
InputScope(c, events, last) ==
    /\ IF rdp_session = "none"
       THEN /\ Respond(c, "not_connected")
            /\ UNCHANGED <<step, delivered>>
       ELSE \* send_input fails once the actor has dropped its command receiver
            LET sent == session_id \in actors IN
               IF sent
               THEN /\ delivered' = Append(delivered, [by |-> serial[c], events |-> events])
                    /\ IF last THEN Respond(c, "ok") /\ UNCHANGED step ELSE Continue(c)
               ELSE \* the actor is gone: RdpError::SessionClosed
                    /\ Respond(c, "internal_error")
                    /\ UNCHANGED <<step, delivered>>
    /\ UNCHANGED <<rdp_session, wiringVars, issueVars, lineVars, runVars>>
    /\ UNCHANGED <<sessVars, dvcVars, rdpdrVars>>

\* a handler that returns without having sent anything
Returns(c, code) ==
    /\ Respond(c, code)
    /\ UNCHANGED <<rdp_session, wiringVars, issueVars, step, delivered, lineVars, runVars>>
    /\ UNCHANGED <<sessVars, dvcVars, rdpdrVars>>

\* handlers::screenshot::handle
HandleScreenshot(c) ==
    /\ Handles(c, {"Screenshot"})
    /\ IF rdp_session = "none"
       THEN Returns(c, "not_connected")
       ELSE \E code \in {"ok", "internal_error"} : Returns(c, code)

\* handlers::scroll::handle
HandleScroll(c) ==
    /\ Handles(c, {"Scroll"})
    /\ InputScope(c, CreateScrollEvents(request[c].dir, request[c].n), TRUE)

\* handlers::mouse::handle: click sends down and up in two lock scopes, move in one
HandleMouse(c) ==
    /\ Handles(c, {"Mouse.Click", "Mouse.Move"})
    /\ IF request[c].kind = "Mouse.Move"
       THEN InputScope(c, <<CreateMouseEvent({"MOVE"})>>, TRUE)
       ELSE IF step[c] = 0
       THEN InputScope(c, <<CreateMouseEvent({"LEFT_BUTTON", "DOWN"})>>, FALSE)
       ELSE InputScope(c, <<CreateMouseEvent({"LEFT_BUTTON"})>>, TRUE)

\* handlers::keyboard::handle, KeyboardRequest::Type: one lock scope per character
HandleKeyboardType(c) ==
    /\ Handles(c, {"Keyboard.Type"})
    /\ LET text == request[c].text IN
       IF step[c] >= Len(text)
       THEN Returns(c, "ok")
       ELSE InputScope(c, UnicodePair(text[step[c] + 1]), step[c] + 1 = Len(text))

\* keys released in the order they were pressed
KeyUpOrderForward(key_infos) == key_infos

\* key_infos.iter().rev(): the order the keys are released in
KeyUpOrder(key_infos) == [i \in 1..Len(key_infos) |-> key_infos[Len(key_infos) + 1 - i]]

\* handlers::keyboard::handle, KeyboardRequest::Press: parse first, then one lock scope
\* per key down, then one per key up in reverse order
HandleKeyboardPress(c) ==
    /\ Handles(c, {"Keyboard.Press"})
    /\ LET parsed == ParseKeyCombination(request[c].keys)
           n == Len(parsed.key_infos)
       IN  IF ~parsed.ok
           THEN Returns(c, "invalid_request")
           ELSE IF step[c] >= 2 * n
           THEN Returns(c, "ok")
           ELSE IF step[c] < n
           THEN InputScope(c, <<CreateKeyEventExt(parsed.key_infos[step[c] + 1], FALSE)>>,
                           FALSE)
           ELSE InputScope(c, <<CreateKeyEventExt(KeyUpOrder(parsed.key_infos)[step[c] - n + 1],
                                                  TRUE)>>,
                           step[c] + 1 = 2 * n)

\* handlers::keyboard::handle, KeyboardRequest::KeyDown / KeyUp: the session is looked
\* for before the key is looked up
HandleKeyboardKey(c) ==
    /\ Handles(c, {"Keyboard.KeyDown", "Keyboard.KeyUp"})
    /\ IF rdp_session = "none"
       THEN Returns(c, "not_connected")
       ELSE IF KeyToScancode(request[c].keys) = None
       THEN Returns(c, "invalid_request")
       ELSE InputScope(c, <<CreateKeyEventExt(KeyToScancode(request[c].keys)[1],
                                              request[c].kind = "Keyboard.KeyUp")>>, TRUE)

\* handlers::clipboard::handle: the outcome of the exchange is the session's business
HandleClipboard(c) ==
    /\ Handles(c, {"Clipboard"})
    /\ IF rdp_session = "none"
       THEN Returns(c, "not_connected")
       ELSE \E code \in {"ok", "clipboard_error"} : Returns(c, code)

\* handlers::automate::handle
HandleAutomate(c) ==
    /\ Handles(c, {"Automate"})
    /\ IF rdp_session = "none"
       THEN Returns(c, "not_connected")
       ELSE \E code \in {"automation_not_enabled", "automation_error", "ok"} :
               Returns(c, code)

\* RdpSession::connect, drive redirection: the (device id, name) pairs for with_drives
DriveList(drives) == [i \in 1..Len(drives) |-> [id |-> i, name |-> drives[i].name]]
\* RdpSession::connect, drive redirection: the one directory the backend is built with
BackendRoot(drives) == IF drives = <<>> THEN <<>> ELSE <<drives[1].path>>
\* the directory the backend resolves a request for device_id in: it has a single base
BackendBasePath(root, device_id) == root

\* what can go wrong while RdpSession::connect runs; "none": nothing does
ConnectCauses == {"none", "tcp", "connect_begin", "tls_upgrade", "certificate", "credentials"}

\* RdpSession::connect: the RdpError each failure is returned as
ConnectResult(cause) ==
    CASE cause = "none" -> "Ok"
      [] cause = "tcp" -> "Io"
      [] cause = "connect_begin" -> "ConnectionFailed"
      [] cause \in {"tls_upgrade", "certificate"} -> "TlsError"
      \* connect_finalize runs CredSSP; whatever it fails with is mapped the same way
      [] cause = "credentials" -> "ConnectionFailed"

\* handlers::connect::handle: the ErrorCode of the response for an RdpError
ConnectErrorCode(error) ==
    IF error = "AuthenticationFailed" THEN "authentication_failed" ELSE "connection_failed"

\* handlers::connect::handle: an existing session is disconnected first, in a lock scope
\* of its own; then RdpSession::connect runs and its result is stored
HandleConnect(c) ==
    /\ Handles(c, {"Connect"})
    /\ IF step[c] = 0
       THEN /\ rdp_session' = "none"
            /\ config_drives' = <<>>
            /\ drive_list' = <<>>
            /\ backend_root' = <<>>
            /\ connect_failure' = <<>>
            /\ session_id' = 0
            /\ Continue(c)
            /\ UNCHANGED <<no_session, actors>>
       ELSE \E cause \in ConnectCauses :
               LET error == ConnectResult(cause) IN
               /\ UNCHANGED step
               /\ IF error = "Ok"
                  THEN /\ Respond(c, "ok")
                       /\ rdp_session' = "live"
                       /\ config_drives' = request[c].drives
                       /\ drive_list' = DriveList(request[c].drives)
                       /\ backend_root' = BackendRoot(request[c].drives)
                       /\ connect_failure' = <<>>
                       /\ no_session' = [k \in Callers |-> FALSE]
                       \* the new session's actor is spawned; what was in the slot is
                       \* overwritten
                       /\ session_id' = serial[c]
                       /\ actors' = actors \cup {serial[c]}
                  ELSE /\ Respond(c, ConnectErrorCode(error))
                       /\ connect_failure' =
                             <<[by |-> c, cause |-> cause, error |-> error]>>
                       /\ UNCHANGED <<rdp_session, config_drives, drive_list, backend_root,
                                      no_session, session_id, actors>>
    /\ UNCHANGED <<request, serial, requests_issued, delivered, lineVars, daemon_run,
                   disconnect_rx, shutdown_by>>
    /\ UNCHANGED <<sessVars, dvcVars, rdpdrVars>>

\* handlers::connect::handle_disconnect
HandleDisconnect(c) ==
    /\ Handles(c, {"Disconnect"})
    /\ IF rdp_session = "none"
       THEN /\ Respond(c, "not_connected")
            /\ UNCHANGED <<rdp_session, wiringVars, session_id>>
       ELSE /\ \E code \in {"ok", "internal_error"} : Respond(c, code)
            /\ rdp_session' = "none"
            /\ session_id' = 0
            /\ config_drives' = <<>>
            /\ drive_list' = <<>>
            /\ backend_root' = <<>>
            /\ UNCHANGED connect_failure
    /\ UNCHANGED <<issueVars, step, delivered, lineVars, daemon_run, actors, disconnect_rx,
                   shutdown_by>>
    /\ UNCHANGED <<sessVars, dvcVars, rdpdrVars>>

\* process_request answers Request::Shutdown with ok; handle_client writes the response,
\* sends on shutdown_tx and leaves its loop
HandleShutdown(c) ==
    /\ Handles(c, {"Shutdown"})
    /\ Respond(c, "ok")
    /\ conn' = [conn EXCEPT ![c] = "closed"]
    /\ UNCHANGED <<rdp_session, wiringVars, issueVars, step, delivered, lines_read, runVars>>
    /\ UNCHANGED <<sessVars, dvcVars, rdpdrVars>>

\* run_frame_processor of session g leaves its loop: after a Shutdown command without a
\* notification, in every other way with disconnect_notify.send(()).await, which needs
\* room in the port; the session in the slot has not been sent a Shutdown
ActorExits(g) ==
    /\ daemon_run = "running"
    /\ g \in actors
    /\ actors' = actors \ {g}
    /\ \E graceful \in (IF g = session_id THEN {FALSE} ELSE BOOLEAN) :
          IF graceful
          THEN UNCHANGED disconnect_rx
          ELSE /\ Len(disconnect_rx) < DisconnectCapacity
               /\ disconnect_rx' = Append(disconnect_rx, g)
    /\ UNCHANGED <<rdp_session, wiringVars, issueVars, step, delivered, lineVars,
                   lines_written, client_pc, response, daemon_run, session_id, shutdown_by>>
    /\ UNCHANGED <<sessVars, dvcVars, rdpdrVars>>

\* a handle_client task has sent on shutdown_tx
ShutdownRequested == \E c \in Callers : conn[c] # "open"

\* Daemon::run leaves its select loop, on disconnect_rx.recv() or on shutdown_rx.recv(),
\* and Daemon::shutdown takes and disconnects the session in the slot; the process ends
DaemonRun ==
    /\ daemon_run = "running"
    /\ \E from \in (IF disconnect_rx # <<>> THEN {Head(disconnect_rx)} ELSE {})
                      \cup (IF ShutdownRequested THEN {0} ELSE {}) :
          /\ shutdown_by' = <<[from |-> from, slot |-> session_id]>>
          /\ disconnect_rx' = IF from # 0 THEN Tail(disconnect_rx) ELSE disconnect_rx
    /\ daemon_run' = "exited"
    /\ rdp_session' = "none"
    /\ session_id' = 0
    /\ UNCHANGED <<wiringVars, issueVars, step, delivered, lineVars, lines_written,
                   client_pc, response, actors>>
    /\ UNCHANGED <<sessVars, dvcVars, rdpdrVars>>

NextDaemon ==
    \/ \E c \in Callers, r \in Requests : Issue(c, r)
    \/ \E c \in Callers : HandleConnect(c)
    \/ \E c \in Callers : HandleDisconnect(c)
    \/ \E c \in Callers : HandleScreenshot(c)
    \/ \E c \in Callers : HandleScroll(c)
    \/ \E c \in Callers : HandleMouse(c)
    \/ \E c \in Callers : HandleKeyboardType(c)
    \/ \E c \in Callers : HandleKeyboardPress(c)
    \/ \E c \in Callers : HandleKeyboardKey(c)
    \/ \E c \in Callers : HandleClipboard(c)
    \/ \E c \in Callers : HandleAutomate(c)
    \/ \E c \in Callers : IssueMalformed(c)
    \/ \E c \in Callers : HandleShutdown(c)
    \/ \E g \in 1..MaxRequests : ActorExits(g)
    \/ DaemonRun

(***************************************************************************)
(* Specifications: the subsystems share no state, each is explored on its  *)
(* own from the common initial state                                       *)
(***************************************************************************)
Init == InitSession /\ InitDvc /\ InitRdpdr /\ InitDaemon

Next ==
    \/ \E c \in Callers : CallSendInput(c)
    \/ \E c \in Callers, t \in LocalTexts : CallClipboardSet(c, t)
    \/ \E c \in Callers : CallClipboardGet(c)
    \/ \E c \in Callers : CallerReturn(c)
    \/ \E c \in Callers : CallDisconnect(c)
    \/ DropHandle
    \/ DaemonRunDisconnect
    \/ DaemonShutdown
    \/ ActorSendInput
    \/ ActorClipboardSet
    \/ ActorClipboardGet
    \/ ActorShutdown
    \/ ActorChannelClosed
    \/ ActorPduMonitorReady
    \/ ActorPduFormatList
    \/ ActorPduFormatDataRequest
    \/ ActorPduFormatDataResponse
    \/ ActorPduError
    \/ ActorPduTerminate
    \/ ActorReadError
    \/ ActorBackend
    \/ \E t \in RemoteTexts : SrvCopy(t)
    \/ \E f \in ServerFormats : SrvPaste(f)
    \/ SrvMalformed
    \/ SrvTerminate

\* the session actor, its clipboard and its callers
Spec == Init /\ [][Next]_vars

\* the same with the scheduling the runtime gives: every task that can take a step
\* eventually takes it (the daemon's run loop, the handlers, the actor)
Fairness ==
    /\ WF_vars(DaemonRunDisconnect)
    /\ WF_vars(DaemonShutdown)
    /\ \A c \in Callers : WF_vars(CallerReturn(c))
SpecFair == Spec /\ Fairness

\* the DVC automation fabric
SpecDvc == Init /\ [][NextDvc]_vars

\* the drive backend
SpecRdpdr == Init /\ [][NextRdpdr]_vars

\* the daemon's request handlers
SpecDaemon == Init /\ [][NextDaemon]_vars

TypeOK ==
    /\ actor \in {"running", "stopped"}
    /\ pending_get \in Callers \cup {0}
    /\ session_lock \in Callers \cup {0}
    /\ automation_lock \in Callers \cup {0}
    /\ DOMAIN file_map \subseteq FileIds

(***************************************************************************)
(* Properties of the session                                               *)
(***************************************************************************)
\* C1 (as stated): the disconnect port is signalled only when the actor was ended
\* by a stream read error or by a terminate PDU.
C1_OnlyAbruptExitsNotify ==
    disconnect_notified => exit_cause \in {"read_error", "terminate"}

\* C3 (as stated): a get processed while the last clipboard event is a local set(t),
\* with no remote announcement since, and answered with a text, is answered with t.
C3_GetAfterSetReturnsText ==
    \A c \in Callers :
        (pc[c] = "await_get" /\ get_ctx[c] # None /\ oneshot[c].st = "text")
            => oneshot[c].text = get_ctx[c][1]

\* C4: while a reply channel is installed in pending_get no ClipboardGet command is
\* in the command channel, so the get arm never installs over an uncompleted read,
\* whatever the interleaving of the handler tasks.
C4_OneOutstandingGet ==
    pending_get # 0 =>
        /\ \A i \in 1..Len(command_rx) : command_rx[i].type # "ClipboardGet"
        /\ oneshot[pending_get].st = "empty"
        /\ pc[pending_get] = "await_get"

C4_Witness ==
    /\ pending_get # 0
    /\ calls_made >= 2
    /\ \E c \in Callers : c # pending_get /\ pc[c] = "idle"

\* C5: a get answered from the cache is answered with the cached text, and that text
\* was delivered under the latest announcement the backend has processed.
C5_CacheReflectsLatestAnnouncement ==
    [][\A c \in Callers :
          (oneshot[c].st = "empty" /\ oneshot'[c].via = "cache")
              => /\ remote_text # None
                 /\ oneshot'[c].text = remote_text[1]
                 /\ remote_text_ep = client_epoch]_vars

C5_Witness ==
    /\ client_epoch = 2
    /\ remote_text_ep = 2
    /\ \E c \in Callers : oneshot[c].via = "cache"

\* C6: the step in which a format-data response completes the pending get with a
\* text is the step that stores that text in remote_text and empties pending_get.
C6_ResponseAtomic ==
    [][\A c \in Callers :
          (oneshot[c].st = "empty" /\ oneshot'[c].via = "response")
              => /\ pending_get = c
                 /\ pending_get' = 0
                 /\ remote_text' = Some(oneshot'[c].text)]_vars

C6_Witness ==
    \E c \in Callers :
        /\ oneshot[c].via = "response"
        /\ remote_text = Some(oneshot[c].text)
        /\ pending_get = 0

\* C7 (as stated): once the session is torn down by a Shutdown command or by a
\* terminate PDU, no clipboard read is left uncompleted in pending_get.
C7_TeardownCompletesPendingGet ==
    (actor = "stopped" /\ exit_cause \in {"shutdown", "terminate"}) => pending_get = 0

\* C8: a read error or a terminate PDU stops the actor and signals the disconnect
\* port, and a stopped actor changes no clipboard, input or channel state.
C8_AbruptExitStopsAndNotifies ==
    [][/\ exit_cause' \in {"read_error", "terminate"}
            => (actor' = "stopped" /\ disconnect_notified')
       /\ actor = "stopped"
            => UNCHANGED <<exitVars, clipVars, last_handed, last_written,
                           clipboard_backend_rx, stream_in, srv_clip, srv_relay>>]_vars

C8_Witness ==
    /\ exit_cause = "read_error"
    /\ actor = "stopped"
    /\ disconnect_notified
    /\ calls_made = MaxCalls

\* C9: SendInput batches are handed to the protocol engine, and their response
\* frames written, in the order in which they were submitted.
C9_InputsInSubmissionOrder ==
    [][/\ last_handed' # last_handed => last_handed' = last_handed + 1
       /\ last_written' # last_written => last_written' > last_written
       /\ last_written' <= last_handed']_vars

C9_Witness ==
    /\ last_handed = 2
    /\ last_written = 2
    /\ \E i \in 1..Len(command_rx) : command_rx[i].type = "SendInput"

(***************************************************************************)
(* Properties of the DVC fabric                                            *)
(***************************************************************************)
\* C2: when a send_request call returns, the pending map holds no entry under the
\* request id of that call.
C2_NoPendingEntryAtReturn ==
    returned_id # 0 => pending[returned_id] = 0

C2_Witness ==
    /\ returned_id # 0
    /\ dvc_result = "timeout"
    /\ channel_id # 0
    /\ command_tx = "open"

(***************************************************************************)
(* Properties of the drive backend                                         *)
(***************************************************************************)
\* C10 (as stated): right after a close of a handle that was marked delete-on-close,
\* the path that was bound to the handle does not exist.
C10_DeleteOnCloseRemovesPath ==
    (closed # <<>> /\ closed[1].should_delete) => Kind(fs, closed[1].path) = "none"

C12_BaseIsPrefixOfBoundPath ==
    \A id \in DOMAIN file_path_map :
        IsPrefix(DrivePaths[file_device_map[id]], file_path_map[id])

\* a local path lies inside a directory when the location it leads to is the directory
\* or below it
Inside(base, p) == IsPrefix(base, Canon(p))

\* C13 (as stated): the local path a request resolves the server's path to lies inside
\* the base directory of the device the request addresses.
C13_ResolvedInsideBase ==
    resolved # <<>> => Inside(DrivePaths[resolved[1].device], resolved[1].path)

(***************************************************************************)
(* Properties of the daemon's request handlers                             *)
(***************************************************************************)
\* C14 (as stated): in a session connected with n drives the i-th drive is announced
\* under device id i, and a request for device id i is resolved in the i-th drive's
\* local path.
C14_DeviceResolvesInOwnDrive ==
    rdp_session = "live" =>
        \A i \in 1..Len(config_drives) :
            /\ drive_list[i].id = i
            /\ BackendBasePath(backend_root, i) = <<config_drives[i].path>>

\* the operations that need a session: every request but connect and the daemon's shutdown
SessionKinds == {r.kind : r \in Requests} \ {"Connect", "Shutdown"}

\* C19 (as stated): a request for an operation that needs a session, handled while the
\* daemon held no session from its issue on, is answered not_connected.
C19_NotConnectedWithoutSession ==
    \A c \in Callers :
        (/\ request[c].kind \in SessionKinds
         /\ no_session[c]
         /\ response[c] # "none") => response[c] = "not_connected"

\* a key string has a part that, trimmed and lowercased, is no row of the key table
HasUnknownToken(keys) ==
    LET parts == Split(keys, "+")
    IN  \E i \in 1..Len(parts) : ToLowercase(Trim(parts[i])) \notin DOMAIN KeyMap

\* C20: keyboard press with a key string that has an unknown part, the empty string
\* included, is answered invalid_request and none of its key events is sent.
C20_UnknownKeyRejected ==
    \A c \in Callers :
        (request[c].kind = "Keyboard.Press" /\ HasUnknownToken(request[c].keys)) =>
            /\ response[c] \in {"none", "invalid_request"}
            /\ \A i \in 1..Len(delivered) : delivered[i].by # serial[c]

C20_Witness ==
    \E c \in Callers :
        /\ request[c].kind = "Keyboard.Press"
        /\ request[c].keys = Str_ctrl \o <<"+", "?">>
        /\ response[c] = "invalid_request"
        /\ rdp_session = "live"
        /\ ~no_session[c]

(***************************************************************************)
(* C15: when the DVC channel closes, channel_id and handshake are cleared  *)
(* and the pending map is empty; every request that was pending at that    *)
(* moment receives the channel_closed response, and its send_request       *)
(* returns the channel_closed failure.                                     *)
(***************************************************************************)
C15_CloseFailsPending ==
    [][/\ (channel_id # 0 /\ channel_id' = 0) =>
            /\ handshake' = FALSE
            /\ \A i \in DvcIds : pending'[i] = 0
            /\ \A i \in DvcIds : pending[i] # 0 =>
                   /\ dvc_pc'[pending[i]] = "waiting"
                   /\ response_rx'[pending[i]] = "channel_closed"
       /\ \A c \in Callers :
             (response_rx[c] = "channel_closed" /\ dvc_pc'[c] = "idle") =>
                 dvc_result' = "channel_closed"]_vars

C15_Witness ==
    /\ channel_id = 0
    /\ ~handshake
    /\ returned_id # 0
    /\ dvc_result = "channel_closed"
    /\ \A i \in DvcIds : pending[i] = 0

(***************************************************************************)
(* C16 (as stated): with the helper killed, the three automation requests  *)
(* issued after the kill each return an error (the handler reports every   *)
(* Err of send_request as automation_error), and the third one is the      *)
(* "appears to be dead ... Please reconnect" error.  Stated for a session   *)
(* that is still connected and a helper none of whose messages answers a   *)
(* request issued after the kill.                                          *)
(***************************************************************************)
\* results of send_request that are Err(..)
DvcErrors ==
    {"not_ready", "not_open", "no_sender", "send_failed", "timeout", "closed", "dead",
     "fail", "channel_closed"}

\* no request issued after the kill was answered by something the helper had written
NeverAnswered == \A i \in 1..Len(after_kill) : after_kill[i] \notin {"ok", "fail"}

C16_ThirdFailureMentionsReconnect ==
    (command_tx = "open" /\ NeverAnswered) =>
        /\ \A i \in 1..Len(after_kill) : after_kill[i] \in DvcErrors
        /\ Len(after_kill) >= ConsecutiveFailureThreshold =>
               after_kill[ConsecutiveFailureThreshold] = "dead"

(***************************************************************************)
(* C17: no reply to a query-directory request carries an entry named "."   *)
(* or "..": the file name in the reply is never one of them, and no reply  *)
(* with a buffer is built from a "." or ".." entry of a directory stream.  *)
(***************************************************************************)
C17_NoDotEntries ==
    drive_reply.op = "query_directory" =>
        /\ drive_reply.name \notin DotEntries
        /\ drive_reply.entry \notin DotEntries

\* a continuation on a stored cursor answered with an entry
C17_Witness ==
    /\ drive_reply.op = "query_directory"
    /\ drive_reply.status = "SUCCESS"
    /\ resolved = <<>>
    /\ drive_reply.entry = "b"
    /\ drive_reply.name = "b"
    /\ \E id \in DOMAIN file_dir_map : file_dir_map[id].iter = <<>>

(***************************************************************************)
(* C18: a rename request on an open handle applied again (same device,     *)
(* same file id, same target name, nothing in between) leaves              *)
(* file_path_map and the filesystem exactly as the first application left  *)
(* them.                                                                   *)
(***************************************************************************)
C18_RenameIdempotent ==
    [][repeated' => (fs' = fs /\ file_path_map' = file_path_map)]_vars

\* x\a was moved to x\b by the first application, and the second one succeeded too
C18_Witness ==
    /\ repeated
    /\ drive_reply.status = "SUCCESS"
    /\ fs[<<"x", "a">>] = "none"
    /\ fs[<<"x", "b">>] = "file"
    /\ file_path_map[resolved[1].id] = <<"x", "b">>

(***************************************************************************)
(* C21 (as stated): a failed connect carries the error type of its cause:  *)
(* rejected credentials are AuthenticationFailed, reported to the client   *)
(* as authentication_failed, and a failed TLS upgrade is TlsError.         *)
(***************************************************************************)
C21_ErrorFollowsCause ==
    connect_failure # <<>> =>
        LET f == connect_failure[1] IN
        /\ f.cause = "credentials" =>
               /\ f.error = "AuthenticationFailed"
               /\ response[f.by] \in {"none", "authentication_failed"}
        /\ f.cause = "tls_upgrade" => f.error = "TlsError"

\* C23: once the actor has signalled the disconnect port, the daemon's shutdown completes:
\* it obtains the session slot and removes the socket and PID files
C23_ShutdownCompletes == disconnect_notified ~> (shutdown_pc = "done")

\* C27: a ClipboardGet is not left pending when no format-data response can arrive: when
\* the paste request could not be initiated, encoded or written, no reply channel stays
\* installed in pending_get (the read was completed with a reply)
C27_NoGetLeftPending ==
    fault \in PasteOutcomes \ {"none"} => pending_get = 0

\* C28: when the actor leaves by the Shutdown arm, no clipboard backend event is still
\* queued: every queued event was written to the stream before the exit
C28_ShutdownDrainsBackend ==
    [][(actor = "running" /\ actor' = "stopped" /\ exit_cause' = "shutdown")
          => clipboard_backend_rx = <<>>]_vars

\* C29: a per-request failure inside the actor (input processing, PDU processing,
\* serialising or writing a clipboard message) neither ends the actor loop nor signals
\* the disconnect port
C29_FaultsAreNotFatal ==
    fault # "none" => (actor = "running" /\ ~disconnect_notified)
C29_Witness ==
    /\ fault = "pdu"
    /\ actor = "running"
    /\ last_handed # last_written
    /\ local_text # None

\* C25: an inbound response with id i changes the one-shot of at most one handler task,
\* the one stored under i in the pending table, whose request carries i and which is still
\* waiting; a response with no entry under its id changes neither the table nor any one-shot
C25_ResponseReachesItsWaiter ==
    [][(/\ dvc_in # <<>>
        /\ Head(dvc_in).type = "response"
        /\ dvc_in' = Tail(dvc_in)
        /\ channel_id' = channel_id)
          => LET i == Head(dvc_in).id
                 w == pending[i]
             IN  /\ \A c \in Callers :
                        response_rx'[c] # response_rx[c]
                            => (c = w /\ request_id[c] = i /\ dvc_pc[c] = "waiting")
                 /\ w = 0 => (pending' = pending /\ response_rx' = response_rx)
                 /\ \A j \in DvcIds \ {i} : pending'[j] = pending[j]]_vars
C25_Witness ==
    \E c \in Callers :
        /\ dvc_pc[c] = "waiting"
        /\ response_rx[c] \in {"ok", "fail"}
        /\ pending[request_id[c]] = 0
        /\ dvc_in # <<>>
        /\ Head(dvc_in).type = "response"

\* number of calls that ended by timeout or closed one-shot since the last replied call
RECURSIVE FailuresSinceReply(_)
FailuresSinceReply(h) ==
    IF h = <<>> THEN 0
    ELSE LET last == h[Len(h)]
             rest == SubSeq(h, 1, Len(h) - 1)
         IN  CASE last = "reply" -> 0
               [] last = "early" -> FailuresSinceReply(rest)
               [] OTHER -> 1 + FailuresSinceReply(rest)

\* C26: the consecutive-failure counter is the number of send_request calls that ended by
\* timeout or closed one-shot since the last call that received a reply, and a call returns
\* the dead-channel error exactly when it ended that way with the counter at the threshold
C26_CounterCountsFailures ==
    /\ consecutive_failures = FailuresSinceReply(ended)
    /\ returned_id # 0 =>
          (dvc_result = "dead" <=>
              /\ ended[Len(ended)] \in {"timeout", "closed"}
              /\ consecutive_failures >= ConsecutiveFailureThreshold)
C26_Witness ==
    /\ returned_id # 0
    /\ dvc_result = "dead"
    /\ consecutive_failures = ConsecutiveFailureThreshold
    /\ ended = <<"timeout", "timeout", "timeout">>

\* C30: a request is handed to the channel only while a handshake received on the
\* currently open channel is stored
C30_RequestsOnlyAfterHandshake ==
    [][Len(dvc_out') > Len(dvc_out) => handshake]_vars

C24_OnlyCurrentSessionShutsDown ==
    shutdown_by # <<>> =>
        LET s == shutdown_by[1] IN s.from # 0 => s.slot \in {0, s.from}

(***************************************************************************)
(* C32: a rename request answered SUCCESS binds the handle to the new      *)
(* path and moves no other binding; a rename request answered otherwise    *)
(* leaves every binding as it was. The close that follows deletes the path *)
(* the handle is bound to then.                                            *)
(***************************************************************************)
C32_RenameRebindsHandle ==
    [][(drive_reply'.op = "set_information.Rename" /\ drive_requests' # drive_requests) =>
          IF drive_reply'.status = "SUCCESS"
          THEN /\ resolved' # <<>>
               /\ DOMAIN file_path_map' = DOMAIN file_path_map
               /\ \A id \in DOMAIN file_path_map :
                     file_path_map'[id] = IF id = resolved'[1].id THEN resolved'[1].path
                                          ELSE file_path_map[id]
          ELSE file_path_map' = file_path_map]_vars

\* the only handle ever created was renamed from x\a to y\a, marked and closed: the
\* close deleted y\a
C32_Witness ==
    /\ created_ids = <<0>>
    /\ closed # <<>>
    /\ closed[1].should_delete
    /\ closed[1].path = <<"y", "a">>
    /\ fs[<<"x", "a">>] = "none"
    /\ fs[<<"y", "a">>] = "none"

(***************************************************************************)
(* C33 (as stated): on a registered handle and device, for the information *)
(* class the backend answers: an initial query that finds no entry replies *)
(* NO_SUCH_FILE; a continuation replies NO_MORE_FILES exactly when the     *)
(* stored cursor has no further entry or no cursor is stored, and          *)
(* otherwise it returns the cursor's next entry.                           *)
(***************************************************************************)
C33_ContinuationFollowsCursor ==
    (queried # <<>> /\ drive_reply.status # "NOT_SUPPORTED") =>
        LET q == queried[1] IN
        /\ (q.initial /\ ~q.found) => drive_reply.status = "NO_SUCH_FILE"
        /\ ~q.initial =>
              /\ drive_reply.status = "NO_MORE_FILES" <=> ~q.found
              /\ q.found => (drive_reply.status = "SUCCESS" /\ drive_reply.entry = q.next)

\* the replies to the requests the backend has no operation for
UnsupportedReplied == drive_reply.op \in UnsupportedRequests

(***************************************************************************)
(* C34 (as stated): every change-notify, lock-control and device-control   *)
(* request is answered with a reply of status SUCCESS that carries no      *)
(* output.                                                                 *)
(***************************************************************************)
C34_UnsupportedAnsweredSuccess ==
    UnsupportedReplied => (drive_reply.status = "SUCCESS" /\ drive_reply.name = "")

(***************************************************************************)
(* C35 (as stated): in a successful create reply, FILE_OPEN and            *)
(* FILE_OPEN_IF on an existing target are reported FILE_OPENED,            *)
(* FILE_OVERWRITE and FILE_OVERWRITE_IF are reported FILE_OVERWRITTEN, and *)
(* FILE_SUPERSEDED is reported only for FILE_SUPERSEDE or for a target     *)
(* that did not exist before.                                              *)
(***************************************************************************)
C35_InformationMirrorsDisposition ==
    (create_reply # <<>> /\ drive_reply.status = "SUCCESS") =>
        LET c == create_reply[1] IN
        /\ (c.disposition \in {"FILE_OPEN", "FILE_OPEN_IF"} /\ c.existed)
              => c.information = "FILE_OPENED"
        /\ c.disposition \in {"FILE_OVERWRITE", "FILE_OVERWRITE_IF"}
              => c.information = "FILE_OVERWRITTEN"
        /\ c.information = "FILE_SUPERSEDED"
              => (c.disposition = "FILE_SUPERSEDE" \/ ~c.existed)

(***************************************************************************)
(* C39: file_map, file_path_map and file_device_map have the same file ids *)
(* as keys, every key of file_dir_map and of delete_on_close is one of     *)
(* them, and a handle just closed is a key of none of the five maps.       *)
(***************************************************************************)
C39_MapsShareKeys ==
    /\ DOMAIN file_map = DOMAIN file_path_map
    /\ DOMAIN file_device_map = DOMAIN file_path_map
    /\ DOMAIN file_dir_map \subseteq DOMAIN file_path_map
    /\ DOMAIN delete_on_close \subseteq DOMAIN file_path_map
    /\ closed # <<>> =>
          closed[1].id \notin (DOMAIN file_map \cup DOMAIN file_path_map
                               \cup DOMAIN file_device_map \cup DOMAIN file_dir_map
                               \cup DOMAIN delete_on_close)

\* a handle with a delete mark was closed while another one stays open
C39_Witness ==
    /\ closed # <<>>
    /\ closed[1].id = 0
    /\ closed[1].should_delete
    /\ DOMAIN file_path_map = {1}

(***************************************************************************)
(* C40: the file ids the create replies carry, failed creates included,    *)
(* are strictly increasing: none is handed out twice, and the id of a      *)
(* closed handle does not come back.                                       *)
(***************************************************************************)
C40_FileIdsIncrease ==
    /\ \A i, j \in DOMAIN created_ids : i < j => created_ids[i] < created_ids[j]
    /\ \A id \in DOMAIN file_path_map : \E i \in DOMAIN created_ids : created_ids[i] = id
    /\ create_reply # <<>> => create_reply[1].file_id = created_ids[Len(created_ids)]

\* the first create made x\b and its handle was closed; the create after the close
\* was answered with the next id
C40_Witness ==
    /\ created_ids = <<0, 1>>
    /\ create_reply # <<>>
    /\ drive_requests = 3
    /\ fs[<<"x", "b">>] = "file"
    /\ DOMAIN file_path_map = {1}
    /\ file_path_map[1] = <<"x", "a">>

(***************************************************************************)
(* Properties of the input handlers                                        *)
(***************************************************************************)
\* the events handed to send_input on behalf of request number n, in order
RECURSIVE EventsOf(_, _)
EventsOf(batches, n) ==
    IF batches = <<>> THEN <<>>
    ELSE (IF Head(batches).by = n THEN Head(batches).events ELSE <<>>)
             \o EventsOf(Tail(batches), n)

(***************************************************************************)
(* C31 (as stated): the batches one request hands to the session are       *)
(* contiguous in the order the session receives them: no batch of another  *)
(* request lies between two batches of the same request.                   *)
(***************************************************************************)
C31_VerbEventsContiguous ==
    \A i, k \in DOMAIN delivered :
        (i < k /\ delivered[i].by = delivered[k].by) =>
            \A j \in i..k : delivered[j].by = delivered[i].by

\* the events of a key combination: every key pressed in order, then every key released
\* in the opposite order
PressThenRelease(key_infos) ==
    LET n == Len(key_infos) IN
    [i \in 1..(2 * n) |-> IF i <= n THEN CreateKeyEventExt(key_infos[i], FALSE)
                          ELSE CreateKeyEventExt(key_infos[2 * n + 1 - i], TRUE)]

(***************************************************************************)
(* C36: what a keyboard press request has handed to the session so far is  *)
(* a prefix of: the press events of its keys in order, then the release    *)
(* events in reverse order; when the request is answered ok it is all of   *)
(* that sequence, so every key is pressed once and released once, after    *)
(* its press.                                                              *)
(***************************************************************************)
C36_PressThenReleaseReversed ==
    \A c \in Callers :
        (request[c].kind = "Keyboard.Press" /\ ParseKeyCombination(request[c].keys).ok) =>
            LET expected == PressThenRelease(ParseKeyCombination(request[c].keys).key_infos)
                got == EventsOf(delivered, serial[c])
            IN  /\ IsPrefix(got, expected)
                /\ response[c] = "ok" => got = expected

\* ctrl+c answered ok: ctrl down, c down, c up, ctrl up
C36_Witness ==
    \E c \in Callers :
        /\ request[c].kind = "Keyboard.Press"
        /\ request[c].keys = Str_ctrl \o <<"+", "c">>
        /\ response[c] = "ok"
        /\ Len(EventsOf(delivered, serial[c])) = 4
        /\ EventsOf(delivered, serial[c])[3].code = 46
        /\ EventsOf(delivered, serial[c])[4].code = 29

\* the Unicode press and release events of a text, character by character
RECURSIVE UnicodePairsOf(_)
UnicodePairsOf(text) ==
    IF text = <<>> THEN <<>>
    ELSE <<Event("UnicodeKeyboardEvent", Head(text), FALSE, FALSE, {}, 0),
           Event("UnicodeKeyboardEvent", Head(text), FALSE, TRUE, {}, 0)>>
             \o UnicodePairsOf(Tail(text))

(***************************************************************************)
(* C37 (as stated): a keyboard type request answered ok has handed to the  *)
(* session, for each character of its text in order, one Unicode press     *)
(* event and one Unicode release event that carry the character's code     *)
(* point.                                                                  *)
(***************************************************************************)
C37_TypeSendsEachCodePoint ==
    \A c \in Callers :
        (request[c].kind = "Keyboard.Type" /\ response[c] = "ok") =>
            EventsOf(delivered, serial[c]) = UnicodePairsOf(request[c].text)

====
